---- MODULE Spec2Model ----
(***************************************************************************)
(* Vstorage: files stored as 4K video frames.                              *)
(*                                                                         *)
(* The module models the frame configuration (config.rs), the quantizer,   *)
(* bit streams and frame codec (frame.rs), the frame header (header.rs),   *)
(* the Reed-Solomon stage (ecc.rs), the cryptography stage (crypto.rs) and *)
(* the encode and decode pipelines (encode.rs, decode.rs).                 *)
(*                                                                         *)
(* Byte sequences are TLA+ sequences of numbers in 0..255; the Rust index  *)
(* i of a slice is the TLA+ index i + 1.                                   *)
(***************************************************************************)
EXTENDS Integers, Sequences, FiniteSets, TLC

VARIABLES
    quant,      \* the quantizer under noise: level -> pixel -> noisy pixel -> level
    vote,       \* the triple header: encoded, copies overwritten, voted and parsed
    det,        \* detect_config_from_frame: the first frame and the candidates tried
    enc,        \* the encode pipeline: its arguments, its payload, the frames painted
    video,      \* the images the demuxer delivers to the decode pipeline
    dec,        \* the decode pipeline: its position, what it gathered, how it ended
    codec,      \* the frame codec: buffers painted into an image and read back
    rs,         \* the Reed-Solomon stage: data encoded, blocks changed, decoded
    cfg,        \* FrameConfig::new: its arguments and what it returned
    ser         \* the header: serialized, the buffer changed, deserialized

vars == <<quant, vote, det, enc, video, dec, codec, rs, cfg, ser>>

(***************************************************************************)
(* Small helpers.                                                          *)
(***************************************************************************)
Min(a, b) == IF a <= b THEN a ELSE b

Max(a, b) == IF a >= b THEN a ELSE b

Abs(a) == IF a < 0 THEN -a ELSE a

\* i16::clamp(lo, hi)
clamp(x, lo, hi) == IF x < lo THEN lo ELSE IF x > hi THEN hi ELSE x

\* The weighted sum of the bytes s[lo] .. s[hi], each weighted by its
\* place, by halves (the recursion stays shallow).
RECURSIVE WeightedSum(_, _, _)
WeightedSum(s, lo, hi) ==
    IF lo > hi THEN 0
    ELSE IF lo = hi THEN ((2 * lo + 1) * s[lo]) % 256
    ELSE LET mid == (lo + hi) \div 2
         IN  WeightedSum(s, lo, mid) + WeightedSum(s, mid + 1, hi)

\* (a + b - 1) / b
CeilDiv(a, b) == (a + b - 1) \div b

(***************************************************************************)
(* config.rs                                                               *)
(***************************************************************************)
FRAME_WIDTH == 3840

FRAME_HEIGHT == 2160

HEADER_ROWS == 2

HEADER_COPIES == 3

PROTOCOL_VERSION == 1

\* u8::is_power_of_two
is_power_of_two(n) == n \in {1, 2, 4, 8, 16, 32, 64, 128}

\* FrameConfig::new: "ok" or the Config error of the first failing test.
FrameConfig_new(block_size, levels, ecc_len) ==
    IF block_size = 0 THEN "Config"
    ELSE IF ~is_power_of_two(levels) \/ levels < 2 THEN "Config"
    ELSE IF ecc_len = 0 \/ ecc_len >= 255 THEN "Config"
    ELSE IF FRAME_WIDTH % block_size # 0 \/ FRAME_HEIGHT % block_size # 0
         THEN "Config"
    ELSE "ok"

\* The FrameConfig value FrameConfig::new builds (fps and crf only reach the muxer).
FrameConfig(block_size, levels, ecc_len) ==
    [width |-> FRAME_WIDTH, height |-> FRAME_HEIGHT,
     block_size |-> block_size, levels |-> levels, ecc_len |-> ecc_len]

logical_width(c) == c.width \div c.block_size

logical_height(c) == c.height \div c.block_size

\* (levels as f64).log2() as u8: the floor of the binary logarithm.
log2_u8(levels) ==
    CASE levels < 2 -> 0 [] levels < 4 -> 1 [] levels < 8 -> 2
      [] levels < 16 -> 3 [] levels < 32 -> 4 [] levels < 64 -> 5
      [] levels < 128 -> 6 [] OTHER -> 7

bits_per_channel(c) == log2_u8(c.levels)

bits_per_pixel(c) == bits_per_channel(c) * 3

data_area_pixels(c) == logical_width(c) * (logical_height(c) - HEADER_ROWS)

data_area_bytes(c) == (data_area_pixels(c) * bits_per_pixel(c)) \div 8

rs_data_len(c) == 255 - c.ecc_len

\* As max_rs_blocks_per_frame below, the block that does not fit whole
\* counted too.
max_rs_blocks_rounded_up(c) == (data_area_bytes(c) + 254) \div 255

max_rs_blocks_per_frame(c) == data_area_bytes(c) \div 255

max_raw_per_frame(c) == max_rs_blocks_per_frame(c) * rs_data_len(c)

(***************************************************************************)
(* frame.rs: the quantizer.                                                *)
(***************************************************************************)
\* (value as u16 * 255 / (levels as u16 - 1)) as u8: integer division, then
\* the cast keeps the low eight bits.
quantize(value, levels) ==
    IF levels <= 1 THEN 0
    ELSE ((value * 255) \div (levels - 1)) % 256

\* f64::round of pixel / (255 / (levels - 1)), halves away from zero.  The
\* quotient is pixel * (levels - 1) / 255, never within 1/510 of a half for
\* the levels the configuration admits, so the rounding is exact.
round_div(pixel, levels) == (2 * pixel * (levels - 1) + 255) \div 510

\* The floor in place of the rounding.
dequantize_floor(pixel, levels) ==
    IF levels <= 1 THEN 0
    ELSE Min((pixel * (levels - 1)) \div 255, levels - 1)

dequantize(pixel, levels) ==
    IF levels <= 1 THEN 0
    ELSE Min(round_div(pixel, levels) % 256, levels - 1)

(***************************************************************************)
(* Byte sequences.                                                         *)
(***************************************************************************)
\* vec![v; n]
Fill(n, v) == [i \in 1..n |-> v]

\* u32::to_be_bytes
be_bytes4(x) == <<(x \div 16777216) % 256, (x \div 65536) % 256,
                  (x \div 256) % 256, x % 256>>

\* u16::to_be_bytes
be_bytes2(x) == <<(x \div 256) % 256, x % 256>>

\* u64::to_be_bytes; the sizes of the model stay below 2^31, so the four
\* high bytes are zero.
be_bytes8(x) == <<0, 0, 0, 0>> \o be_bytes4(x)

(***************************************************************************)
(* header.rs: the serialized header and the vote.                          *)
(***************************************************************************)
HEADER_SIZE == 90

\* b"VSTR"
MAGIC == <<86, 83, 84, 82>>

\* As serialize below, frame_number and total_frames in each other's place.
serialize_swapped(h) ==
    MAGIC \o <<h.version>> \o be_bytes4(h.total_frames)
          \o be_bytes4(h.frame_number) \o <<h.block_size, h.levels>>
          \o be_bytes8(h.file_size) \o be_bytes4(h.data_length)
          \o <<h.ecc_len>> \o be_bytes2(h.rs_data_len)
          \o h.nonce \o h.salt \o h.data_sha256

\* FrameHeader::serialize
serialize(h) ==
    MAGIC \o <<h.version>> \o be_bytes4(h.frame_number)
          \o be_bytes4(h.total_frames) \o <<h.block_size, h.levels>>
          \o be_bytes8(h.file_size) \o be_bytes4(h.data_length)
          \o <<h.ecc_len>> \o be_bytes2(h.rs_data_len)
          \o h.nonce \o h.salt \o h.data_sha256

Ok(v) == [ok |-> TRUE, val |-> v]

Err(kind) == [ok |-> FALSE, err |-> kind]

encode_header_triple(h) == serialize(h) \o serialize(h) \o serialize(h)

\* A vote that always trusts the first copy.
majority_vote_first(a, b, c) == a

majority_vote(a, b, c) ==
    IF a = b \/ a = c THEN a
    ELSE IF b = c THEN b
    ELSE a

(***************************************************************************)
(* frame.rs: bit streams.                                                  *)
(***************************************************************************)
\* The byte of data at Rust index i, zero past the end: the reader stays at
\* the end once it is there, and the bits it no longer finds are zero.
ReaderByte(data, i) == IF i < Len(data) THEN data[i + 1] ELSE 0

\* BitReader::read_bits: the value of the call that starts at stream
\* position pos, num_bits <= 8 bits, most significant first.  The bits lie
\* in the byte of pos and in the next one.
read_bits(data, pos, num_bits) ==
    LET first == pos \div 8
        window == ReaderByte(data, first) * 256 + ReaderByte(data, first + 1)
    IN  (window \div 2^(16 - (pos % 8) - num_bits)) % 2^num_bits

\* What BitWriter::write_bits(value, num_bits), as the write number r of
\* writes of num_bits bits each, leaves in byte k of the buffer: the bits of
\* value that fall into the stream positions 8k .. 8k+7.
WrittenPart(value, num_bits, r, k) ==
    LET shift == (8 * k + 8) - (r * num_bits + num_bits)
    IN  IF shift >= 0 THEN (value * 2^shift) % 256
        ELSE value \div 2^(-shift)

\* The number of bytes of BitWriter::finish after nbits bits were written:
\* one byte per eight bits, and one more for a partial byte.
BitWriterLen(nbits) == nbits \div 8 + (IF nbits % 8 > 0 THEN 1 ELSE 0)

(***************************************************************************)
(* frame.rs: painting and reading blocks.  An image is kept as what it was *)
(* painted from: an image of kind "painted" is                             *)
(* encode_frame_to_image(header_data, rs_data, config); an image of kind   *)
(* "flat" has every channel of every pixel equal to value.  On top of     *)
(* either lies a noise: delta[ch + 1] added, saturating, to channel ch of  *)
(* every pixel (x, y) with x a multiple of sx and y a multiple of sy.      *)
(***************************************************************************)
\* No pixel is touched.
NoNoise == [sx |-> 0, sy |-> 0, delta |-> <<0, 0, 0>>]

encode_frame_to_image(header_data, rs_data, config) ==
    [kind |-> "painted", width |-> config.width, height |-> config.height,
     block_size |-> config.block_size, levels |-> config.levels,
     header_data |-> header_data, rs_data |-> rs_data, value |-> 0,
     noise |-> NoNoise]

FlatImage(value) ==
    [kind |-> "flat", width |-> FRAME_WIDTH, height |-> FRAME_HEIGHT,
     block_size |-> 1, levels |-> 2, header_data |-> <<>>,
     rs_data |-> <<>>, value |-> value, noise |-> NoNoise]

\* for y in (0..h).step_by(sy) { for x in (0..w).step_by(sx) { put_pixel } }:
\* whether the loops reach the pixel (x, y).
NoiseHits(noise, x, y) ==
    noise.sx > 0 /\ noise.sy > 0 /\ x % noise.sx = 0 /\ y % noise.sy = 0

\* encode_frame_to_image: the level the loops read for channel ch of the
\* logical pixel (lx, ly): read number (row * lw + lx) * 3 + ch of the
\* header reader in the header rows, of the data reader below them.
PaintedLevel(img, lx, ly, ch) ==
    LET lw == img.width \div img.block_size
        bpc == log2_u8(img.levels)
    IN  IF ly < HEADER_ROWS
        THEN read_bits(img.header_data, ((ly * lw + lx) * 3 + ch) * bpc, bpc)
        ELSE read_bits(img.rs_data,
                       (((ly - HEADER_ROWS) * lw + lx) * 3 + ch) * bpc, bpc)

\* paint_block: channel ch of the physical pixel (x, y) as painted.
PaintedPixel(img, x, y, ch) ==
    IF img.kind = "flat" THEN img.value
    ELSE quantize(PaintedLevel(img, x \div img.block_size,
                               y \div img.block_size, ch), img.levels)

\* u8::saturating_add / saturating_sub of the noise on the painted value.
Pixel(img, x, y, ch) ==
    IF NoiseHits(img.noise, x, y)
    THEN clamp(PaintedPixel(img, x, y, ch) + img.noise.delta[ch + 1], 0, 255)
    ELSE PaintedPixel(img, x, y, ch)

\* An image without noise is constant on the aligned squares of side
\* Stride (its own blocks, or the whole frame when flat), so the pixels a
\* block_size square collects are those sampled at this stride, each
\* repeated Stride * Stride times.  Under noise every pixel is collected.
Stride(img, block_size) ==
    IF img.noise # NoNoise THEN 1
    ELSE IF img.kind = "flat" THEN block_size
    ELSE Min(block_size, img.block_size)

\* read_block, the values pushed for channel ch (one per Stride square).
BlockSamples(img, lx, ly, block_size, ch) ==
    LET s == Stride(img, block_size)
        m == block_size \div s
    IN  [k \in 1..(m * m) |->
            Pixel(img, lx * block_size + ((k - 1) % m) * s,
                  ly * block_size + ((k - 1) \div m) * s, ch)] \o <<>>

\* v.sort_unstable(); v[index] (index 0-based): the value with at most
\* index smaller values and more than index values not larger.
SortedAt(v, index) ==
    IF Len(v) = 1 THEN v[1]
    ELSE
    CHOOSE x \in {v[k] : k \in 1..Len(v)} :
        /\ Cardinality({k \in 1..Len(v) : v[k] < x}) <= index
        /\ Cardinality({k \in 1..Len(v) : v[k] <= x}) > index

\* rs[mid] with mid = rs.len() / 2, after the sort.
Median(v) == SortedAt(v, Len(v) \div 2)

\* read_block: the dequantized median of channel ch of the block.  The
\* samples stand for equal numbers of pixels, so the middle of the sorted
\* pixels (index len / 2) is the middle of the sorted samples.
read_block(img, lx, ly, block_size, levels, ch) ==
    dequantize(Median(BlockSamples(img, lx, ly, block_size, ch)), levels)

\* Byte k of the buffer the BitWriter of decode_header_area and of
\* decode_data_area finishes with: nbits bits, bpc for each of the three
\* channels of each block, lw blocks per row, from row first_row on.  The
\* writes that reach byte k are those numbered 8k / bpc to (8k + 7) / bpc,
\* as far as there are writes.
AreaByte(img, lw, block_size, levels, first_row, nbits, k) ==
    LET bpc == log2_u8(levels)
        Part(r) == WrittenPart(read_block(img, (r \div 3) % lw,
                                          first_row + ((r \div 3) \div lw),
                                          block_size, levels, r % 3),
                               bpc, r, k)
        RECURSIVE Parts(_, _)
        Parts(lo, hi) == IF lo > hi THEN 0 ELSE Part(lo) + Parts(lo + 1, hi)
    IN  Parts((8 * k) \div bpc, Min(8 * k + 7, nbits - 1) \div bpc)

(***************************************************************************)
(* Byte buffers (&[u8]).  A buffer is kept as what it was made from: the   *)
(* bytes themselves, or an area of an image as the BitWriter gathers it.   *)
(* BufLen is its length and BufAt its byte at a Rust index, computed where *)
(* it is read.                                                             *)
(***************************************************************************)
\* A buffer of known bytes.
Bytes(s) == [kind |-> "bytes", bytes |-> s]

\* writer.finish() after the loops over the rows from first_row on, lw
\* blocks each, wrote nbits bits.
AreaBuffer(img, lw, block_size, levels, first_row, nbits) ==
    [kind |-> "area", img |-> img, lw |-> lw, block_size |-> block_size,
     levels |-> levels, first_row |-> first_row, nbits |-> nbits]

decode_header_area(img, block_size, levels) ==
    AreaBuffer(img, img.width \div block_size, block_size, levels, 0,
               HEADER_ROWS * (img.width \div block_size) * 3 * log2_u8(levels))

decode_data_area(img, config) ==
    AreaBuffer(img, logical_width(config), config.block_size, config.levels,
               HEADER_ROWS,
               (logical_height(config) - HEADER_ROWS) * logical_width(config)
                   * 3 * bits_per_channel(config))

\* buf.len()
BufLen(buf) ==
    IF buf.kind = "bytes" THEN Len(buf.bytes) ELSE BitWriterLen(buf.nbits)

\* buf[k]
BufAt(buf, k) ==
    IF buf.kind = "bytes" THEN buf.bytes[k + 1]
    ELSE AreaByte(buf.img, buf.lw, buf.block_size, buf.levels, buf.first_row,
                  buf.nbits, k)

(***************************************************************************)
(* header.rs: parsing.                                                     *)
(***************************************************************************)
\* uN::from_be_bytes(buf[first..first + n]) of the header bytes b.  The
\* model's integers end at 2^31 - 1: a value beyond is held as 2^31 - 1.
\* Every length and count the model produces itself is far below.
ShiftIn(high, low) ==
    IF high > (2147483647 - low) \div 256 THEN 2147483647
    ELSE high * 256 + low

RECURSIVE from_be_bytes(_, _, _)
from_be_bytes(b, first, n) ==
    IF n = 0 THEN 0
    ELSE ShiftIn(from_be_bytes(b, first, n - 1), b[first + n])

\* The fields FrameHeader::deserialize reads from the HEADER_SIZE bytes b.
FrameHeaderOf(b) ==
    [version |-> b[5],
     frame_number |-> from_be_bytes(b, 5, 4),
     total_frames |-> from_be_bytes(b, 9, 4),
     block_size |-> b[14],
     levels |-> b[15],
     file_size |-> from_be_bytes(b, 15, 8),
     data_length |-> from_be_bytes(b, 23, 4),
     ecc_len |-> b[28],
     rs_data_len |-> from_be_bytes(b, 28, 2),
     nonce |-> SubSeq(b, 31, 42),
     salt |-> SubSeq(b, 43, 58),
     data_sha256 |-> SubSeq(b, 59, 90)]

\* The voted buffer of decode_header_triple: its byte i, from the three
\* copies in the buffer data.
voted_byte(data, i) ==
    majority_vote(BufAt(data, i), BufAt(data, HEADER_SIZE + i),
                  BufAt(data, HEADER_SIZE * 2 + i))

\* let mut voted = [0u8; HEADER_SIZE], as the loop of decode_header_triple
\* fills it from the buffer data.
VotedBuffer(data) == [kind |-> "voted", data |-> data]

\* buf.len() and buf[k] of the buffer deserialize is given: a slice, or the
\* voted array.
HeaderLen(buf) == IF buf.kind = "voted" THEN HEADER_SIZE ELSE BufLen(buf)

HeaderAt(buf, k) ==
    IF buf.kind = "voted" THEN voted_byte(buf.data, k) ELSE BufAt(buf, k)

\* Err(VstorageError::Header(msg)), msg without the values formatted in.
HeaderError(msg) == [ok |-> FALSE, err |-> "Header", msg |-> msg]

\* FrameHeader::deserialize
deserialize(buf) ==
    IF HeaderLen(buf) < HEADER_SIZE THEN HeaderError("buffer too short")
    ELSE IF \E i \in 0..3 : HeaderAt(buf, i) # MAGIC[i + 1]
    THEN HeaderError("invalid magic")
    ELSE IF HeaderAt(buf, 4) # PROTOCOL_VERSION
    THEN HeaderError("unsupported version")
    ELSE Ok(FrameHeaderOf([i \in 1..HEADER_SIZE |-> HeaderAt(buf, i - 1)]
                              \o <<>>))

decode_header_triple(data) ==
    IF BufLen(data) < HEADER_SIZE * 3 THEN Err("Header")
    ELSE deserialize(VotedBuffer(data))

(***************************************************************************)
(* ecc.rs.  The code is the reed_solomon crate's; the model keeps what the *)
(* crate promises.  The parity of a chunk is a function of the chunk       *)
(* alone, zero for the zero chunk (the code is linear), and a change of    *)
(* one data byte changes every parity byte (two codewords differ in more   *)
(* than ecc_len places).  Decoder::correct returns the codeword that       *)
(* differs from the block in at most ecc_len / 2 places, and fails when    *)
(* there is none.                                                          *)
(***************************************************************************)
\* The weighted sum of the chunk d: what the parity depends on.
ChunkSum(d) == WeightedSum(d, 1, Len(d)) % 256

\* The ecc_len parity bytes of a chunk whose weighted sum is sum.
Parity(sum, ecc_len) == [j \in 1..ecc_len |-> ((2 * j - 1) * sum) % 256]

\* Encoder::encode: the chunk followed by its ecc_len parity bytes.
Encoder_encode(d, ecc_len) == d \o Parity(ChunkSum(d), ecc_len)

\* The chunk number blk of data.chunks(rs_data_len), zero padded.
RsChunk(data, rs_len, blk) ==
    [i \in 1..rs_len |->
        IF blk * rs_len + i <= Len(data) THEN data[blk * rs_len + i] ELSE 0]

\* result.push(encoded[i]) for every block in turn: the blocks, of
\* block_len bytes each, one after another.
PushedBlocks(blocks, block_len) ==
    [k \in 1..(Len(blocks) * block_len) |->
        blocks[((k - 1) \div block_len) + 1][((k - 1) % block_len) + 1]] \o <<>>

\* rs_encode: the blocks of rs_data_len + ecc_len bytes, one per chunk.
rs_encode(data, ecc_len, rs_len) ==
    PushedBlocks([blk \in 1..CeilDiv(Len(data), rs_len) |->
                     Encoder_encode(RsChunk(data, rs_len, blk - 1), ecc_len)]
                     \o <<>>,
                 rs_len + ecc_len)

\* The number of places where the blocks a and b differ.
Distance(a, b) == Cardinality({j \in 1..Len(a) : a[j] # b[j]})

\* Decoder::correct that corrects nothing: only a codeword passes.
Decoder_correct_nothing(buf, ecc_len, sent) ==
    IF buf = Encoder_encode(SubSeq(buf, 1, Len(buf) - ecc_len), ecc_len)
    THEN Ok(SubSeq(buf, 1, Len(buf) - ecc_len))
    ELSE Err("Ecc")

\* As Closest below, the data of the block as it was received.
Closest_as_received(buf, near, rs_len) == Ok(SubSeq(buf, 1, rs_len))

\* The data of the codeword of near closest to buf; there is none when near
\* is empty.
Closest(buf, near, rs_len) ==
    IF near = {} THEN Err("Ecc")
    ELSE Ok(SubSeq(CHOOSE c \in near :
                       \A d \in near : Distance(buf, c) <= Distance(buf, d),
                   1, rs_len))

\* Decoder::correct(&mut buf, None): the data of the codeword within
\* ecc_len / 2 places of buf.  The codewords looked at are the one with
\* buf's own data and the codewords of sent, the blocks this block may
\* have been painted from.
Decoder_correct(buf, ecc_len, sent) ==
    Closest(buf,
            {c \in sent \cup {Encoder_encode(SubSeq(buf, 1, Len(buf) - ecc_len),
                                             ecc_len)} :
                Distance(buf, c) * 2 <= ecc_len},
            Len(buf) - ecc_len)

\* VstorageError::Ecc(msg)
EccError(msg) == [ok |-> FALSE, err |-> "Ecc", msg |-> msg]

\* match dec.correct(&mut buf, None) { Ok(corrected) => .., Err(e) =>
\* return Err(VstorageError::Ecc("RS correction failed on block ..")) }
correct_or_fail(corrected) ==
    IF corrected.ok THEN corrected ELSE EccError("RS correction failed")

\* As Joined below, the error of the later blocks before that of the earlier.
Joined_last_error(left, right) ==
    IF ~right.ok THEN right
    ELSE IF ~left.ok THEN left
    ELSE Ok(left.val \o right.val)

\* The loop of rs_decode over two runs of blocks, one after the other: the
\* first error, or the corrected data in order.
Joined(left, right) ==
    IF ~left.ok THEN left
    ELSE IF ~right.ok THEN right
    ELSE Ok(left.val \o right.val)

\* As Truncated below, without the truncation.
Untruncated(result, expected_data_len) == result

\* result.truncate(expected_data_len); Ok(result)
Truncated(result, expected_data_len) ==
    IF ~result.ok THEN result
    ELSE Ok(SubSeq(result.val, 1, expected_data_len))

\* rs_decode of the buffer data; sent is the buffer the encoder painted
\* into the frame.  Blocks(lo, hi) is the loop over the blocks lo..hi.
rs_decode(data, ecc_len, rs_len, expected_data_len, sent) ==
    LET block_len == rs_len + ecc_len
        num_blocks == CeilDiv(expected_data_len, rs_len)
        Block(i) ==
            IF i * block_len + block_len > BufLen(data)
            THEN EccError("insufficient data")
            ELSE correct_or_fail(Decoder_correct(
                     [j \in 1..block_len |->
                         BufAt(data, i * block_len + j - 1)] \o <<>>,
                     ecc_len,
                     IF (i + 1) * block_len <= Len(sent)
                     THEN {SubSeq(sent, i * block_len + 1, (i + 1) * block_len)}
                     ELSE {}))
        RECURSIVE Blocks(_, _)
        Blocks(lo, hi) ==
            IF lo = hi THEN Block(lo)
            ELSE Joined(Blocks(lo, (lo + hi) \div 2),
                        Blocks(((lo + hi) \div 2) + 1, hi))
    IN  IF num_blocks = 0 THEN Ok(<<>>)
        ELSE Truncated(Blocks(0, num_blocks - 1), expected_data_len)

(***************************************************************************)
(* crypto.rs.  Argon2id and AES-256-GCM are the argon2 and aes_gcm         *)
(* crates'; the model keeps what they promise.  The key is a function of   *)
(* the password and the salt, different for the different passwords and    *)
(* salts of the model.  The ciphertext is the data under a keystream of    *)
(* the key and the nonce, followed by 16 bytes of tag; the tag depends on  *)
(* the key, the nonce, the length and every byte before it, and decryption *)
(* fails unless the tag is the one of what it is given.                    *)
(***************************************************************************)
TAG_SIZE == 16

\* A password is a sequence of bytes; Option<&str> is <<>> for None and
\* <<password>> for Some(password).
None == <<>>
Some(x) == <<x>>

derive_key(password, salt) ==
    LET k == (WeightedSum(password, 1, Len(password))
               + WeightedSum(salt, 1, Len(salt))) % 256
    IN  [i \in 1..32 |-> ((2 * i - 1) * k + i) % 256]

\* Byte i (from 1) of the keystream.
KeyStream(key, nonce, i) == (key[((i - 1) % 32) + 1] + nonce[((i - 1) % 12) + 1] + i) % 256

\* The tag of the ciphertext bytes body under key and nonce.
Tag(key, nonce, body) ==
    LET acc == (key[1] + Len(body)
                 + WeightedSum(nonce, 1, Len(nonce))
                 + WeightedSum(body, 1, Len(body)))
               % 256
    IN  [j \in 1..TAG_SIZE |-> ((2 * j - 1) * acc + j) % 256]

\* encrypt, with the salt and the nonce rand::fill produced.
encrypt(data, password, nonce, salt) ==
    LET key == derive_key(password, salt)
        body == [i \in 1..Len(data) |-> (data[i] + KeyStream(key, nonce, i)) % 256]
    IN  body \o Tag(key, nonce, body)

decrypt(ciphertext, password, nonce, salt) ==
    LET key == derive_key(password, salt)
        n == Len(ciphertext) - TAG_SIZE
    IN  IF n < 0 THEN Err("Crypto")
        ELSE IF SubSeq(ciphertext, n + 1, n + TAG_SIZE)
                  # Tag(key, nonce, SubSeq(ciphertext, 1, n))
        THEN Err("Crypto")
        ELSE Ok([i \in 1..n |->
                    (ciphertext[i] + 256 - KeyStream(key, nonce, i)) % 256])

(***************************************************************************)
(* encode.rs: one frame of the encode loop.                                *)
(***************************************************************************)
\* Sha256::digest: 32 bytes that depend on the length and on every byte of
\* the input (the digest is carried in the header and never compared).
Sha256Digest(data) ==
    LET acc == (Len(data) + WeightedSum(data, 1, Len(data))) % 256
    IN  [i \in 1..32 |-> ((2 * i + 1) * acc + i) % 256]

\* As FrameData below, every slice starting at the start of the payload.
FrameData_from_start(payload, i, max_raw) ==
    SubSeq(payload, 1, Min(max_raw, Len(payload)))

\* &payload[start..end] of loop iteration i.
FrameData(payload, i, max_raw) ==
    SubSeq(payload, i * max_raw + 1, Min(i * max_raw + max_raw, Len(payload)))

\* The image loop iteration i saves.
encode_frame(i, num_frames, config, file_size, payload, nonce, salt) ==
    LET frame_data == FrameData(payload, i, max_raw_per_frame(config))
        rs_encoded == rs_encode(frame_data, config.ecc_len, rs_data_len(config))
        hdr == [version |-> PROTOCOL_VERSION, frame_number |-> i,
                total_frames |-> num_frames, block_size |-> config.block_size,
                levels |-> config.levels, file_size |-> file_size,
                data_length |-> Len(frame_data), ecc_len |-> config.ecc_len,
                rs_data_len |-> rs_data_len(config), nonce |-> nonce,
                salt |-> salt, data_sha256 |-> Sha256Digest(rs_encoded)]
    IN  encode_frame_to_image(encode_header_triple(hdr), rs_encoded, config)

(***************************************************************************)
(* decode.rs: detect_config_from_frame.                                    *)
(***************************************************************************)
BlockSizeCandidates == <<1, 2, 4, 8, 16>>
LevelsCandidates == <<2, 4, 8, 16>>
NumCandidates == Len(BlockSizeCandidates) * Len(LevelsCandidates)

\* The c-th (0-based) pair the nested loops try.
Candidate(c) ==
    [block_size |-> BlockSizeCandidates[(c \div Len(LevelsCandidates)) + 1],
     levels |-> LevelsCandidates[(c % Len(LevelsCandidates)) + 1]]

\* if let Ok(hdr) = decode_header_triple(..) { if hdr.block_size == bs &&
\* hdr.levels == levels { .. return Ok((hdr, config)) } }, parsed being what
\* decode_header_triple returned.
candidate_match(parsed, img, block_size, levels) ==
    IF ~parsed.ok THEN parsed
    ELSE IF parsed.val.block_size = block_size /\ parsed.val.levels = levels
    THEN Ok([header |-> parsed.val,
             config |-> [width |-> img.width, height |-> img.height,
                         block_size |-> block_size, levels |-> levels,
                         ecc_len |-> parsed.val.ecc_len]])
    ELSE Err("mismatch")

\* The body of the inner loop for one candidate: Ok((hdr, config)) when the
\* header parses and names the candidate, the parse's result otherwise
\* (the loop goes on).
try_candidate(img, block_size, levels) ==
    IF img.width % block_size # 0 \/ img.height % block_size # 0
    THEN Err("skipped")
    ELSE candidate_match(decode_header_triple(
                             decode_header_area(img, block_size, levels)),
                         img, block_size, levels)

\* A pass of the loop that returns, or the passes after it.
ReturnedOr(r, rest) == IF r.ok THEN r ELSE rest

\* The loops from candidate c on; Err(Header) after the last candidate.
RECURSIVE detect_from(_, _)
detect_from(img, c) ==
    IF c >= NumCandidates THEN Err("Header")
    ELSE ReturnedOr(try_candidate(img, Candidate(c).block_size,
                                  Candidate(c).levels),
                    detect_from(img, c + 1))

detect_config_from_frame(img) == detect_from(img, 0)

(***************************************************************************)
(* The idle values of the checks' variables.                                *)
(***************************************************************************)
VoteIdle == [pc |-> "idle", header |-> <<>>, triple |-> <<>>,
             overwritten |-> {}, voted |-> <<>>, result |-> <<>>]

QuantIdle == [pc |-> "idle", levels |-> 0, value |-> 0, pixel |-> 0,
              noise |-> 0, noisy |-> 0, recovered |-> 0]

DetIdle == [pc |-> "idle", painted |-> <<>>, img |-> <<>>, cand |-> 0,
            tried |-> <<>>, result |-> <<>>]

EncIdle == [pc |-> "idle", file |-> <<>>, password |-> None, config |-> <<>>,
            payload |-> <<>>, nonce |-> <<>>, salt |-> <<>>, num_frames |-> 0,
            frames |-> <<>>, result |-> <<>>]

VideoIdle == [channel |-> "none", frames |-> <<>>]

\* How a decode run ended: written with the bytes of the output file, or
\* with the error returned, or with a panic.
Written(bytes) == [kind |-> "written", err |-> "", output |-> bytes]
Failed(kind) == [kind |-> "error", err |-> kind, output |-> <<>>]
Panicked == [kind |-> "panic", err |-> "", output |-> <<>>]

DecIdle == [pc |-> "idle", password |-> None, first_header |-> <<>>,
            config |-> <<>>, i |-> 0, loaded |-> {}, ciphertext |-> <<>>,
            branch |-> "", outcome |-> <<>>, earlier |-> <<>>]

CodecIdle == [pc |-> "idle", config |-> <<>>, header_data |-> <<>>,
              rs_data |-> <<>>, img |-> <<>>, header_area |-> <<>>,
              data_area |-> <<>>]

RsIdle == [pc |-> "idle", data |-> <<>>, ecc_len |-> 0, encoded |-> <<>>,
           received |-> <<>>, changed |-> "", resized |-> "",
           expected_data_len |-> 0, result |-> <<>>]

CfgIdle == [pc |-> "idle", block_size |-> 0, levels |-> 0, ecc_len |-> 0,
            result |-> <<>>]

SerIdle == [pc |-> "idle", header |-> <<>>, buf |-> <<>>, damage |-> {},
            result |-> <<>>]

\* Nothing has run yet.
Init ==
    /\ quant = QuantIdle
    /\ vote = VoteIdle
    /\ det = DetIdle
    /\ enc = EncIdle
    /\ video = VideoIdle
    /\ dec = DecIdle
    /\ codec = CodecIdle
    /\ rs = RsIdle
    /\ cfg = CfgIdle
    /\ ser = SerIdle

(***************************************************************************)
(* The quantizer under noise (frame.rs, test_noise_tolerance): a level is  *)
(* quantized, an integer noise is added and clamped to a byte, the noisy   *)
(* pixel is dequantized.                                                   *)
(***************************************************************************)
\* Largest noise amplitude tried.
NoiseBound == 128

ValidLevels == {2, 4, 8, 16}

QuantizeStep ==
    /\ quant.pc = "idle"
    /\ \E levels \in ValidLevels : \E value \in 0..(levels - 1) :
         quant' = [quant EXCEPT !.pc = "quantized", !.levels = levels,
                                !.value = value,
                                !.pixel = quantize(value, levels)]
    /\ UNCHANGED <<vote, det, enc, video, dec, codec, rs, cfg, ser>>

NoiseStep ==
    /\ quant.pc = "quantized"
    /\ \E noise \in (-NoiseBound)..NoiseBound :
         quant' = [quant EXCEPT !.pc = "noisy", !.noise = noise,
                                !.noisy = clamp(quant.pixel + noise, 0, 255)]
    /\ UNCHANGED <<vote, det, enc, video, dec, codec, rs, cfg, ser>>

DequantizeStep ==
    /\ quant.pc = "noisy"
    /\ quant' = [quant EXCEPT !.pc = "read",
                              !.recovered = dequantize(quant.noisy, quant.levels)]
    /\ UNCHANGED <<vote, det, enc, video, dec, codec, rs, cfg, ser>>

QuantNext == QuantizeStep \/ NoiseStep \/ DequantizeStep

SpecQuant == Init /\ [][QuantNext]_vars

\* The margin the specification states: floor(255 / (2 (L - 1))).
StatedMargin(levels) == 255 \div (2 * (levels - 1))

\* The margin the quantizer has: the stated one, one less at eight levels.
Margin(levels) == IF levels = 8 THEN StatedMargin(levels) - 1
                  ELSE StatedMargin(levels)

\* C10 as stated: every noise within floor(255/(2(L-1))) is undone by
\* dequantize, for every L in {2,4,8,16} and every level.
C10_NoiseToleranceAsStated ==
    (quant.pc = "read" /\ Abs(quant.noise) <= StatedMargin(quant.levels))
        => quant.recovered = quant.value

\* C10 (amended): for L in {2,4,16} every noise n with
\* |n| <= floor(255/(2(L-1))), and for L = 8 every noise with |n| <= 17,
\* gives dequantize(clamp(quantize(v,L)+n, 0, 255), L) = v.
C10_NoiseTolerance ==
    (quant.pc = "read" /\ Abs(quant.noise) <= Margin(quant.levels))
        => quant.recovered = quant.value

\* C10 witness: eight levels, level 2, the largest tolerated negative noise.
C10_Witness ==
    /\ quant.pc = "read"
    /\ quant.levels = 8
    /\ quant.value = 2
    /\ quant.noise = -17
    /\ quant.recovered = 2

(***************************************************************************)
(* The triple header under overwritten copies (header.rs,                  *)
(* test_triple_majority_vote): a header is encoded three times, up to      *)
(* MaxOverwritten of the copies are replaced by other bytes, the triple is *)
(* voted and parsed.                                                       *)
(***************************************************************************)
\* How many of the three copies may be overwritten before the decode.
MaxOverwritten == 2

\* sample_header() of the tests of header.rs and three more headers.
SampleHeaders ==
    { [version |-> PROTOCOL_VERSION, frame_number |-> 42, total_frames |-> 100,
       block_size |-> 2, levels |-> 4, file_size |-> 123456789,
       data_length |-> 65535, ecc_len |-> 32, rs_data_len |-> 223,
       nonce |-> Fill(12, 1), salt |-> Fill(16, 2), data_sha256 |-> Fill(32, 3)],
      [version |-> PROTOCOL_VERSION, frame_number |-> 0, total_frames |-> 1,
       block_size |-> 8, levels |-> 16, file_size |-> 0,
       data_length |-> 16, ecc_len |-> 254, rs_data_len |-> 1,
       nonce |-> Fill(12, 0), salt |-> Fill(16, 0), data_sha256 |-> Fill(32, 255)],
      [version |-> PROTOCOL_VERSION, frame_number |-> 255, total_frames |-> 256,
       block_size |-> 16, levels |-> 2, file_size |-> 86,
       data_length |-> 86, ecc_len |-> 1, rs_data_len |-> 254,
       nonce |-> Fill(12, 86), salt |-> Fill(16, 83), data_sha256 |-> Fill(32, 84)] }

\* Bytes an overwritten copy is filled with: zeros, ones, the first magic
\* byte, or the serialization of another header.
OverwritePatterns ==
    {Fill(HEADER_SIZE, v) : v \in {0, 255, 86}}
        \cup {serialize(h) : h \in SampleHeaders}

\* let mut triple = encode_header_triple(&h)
EncodeTriple ==
    /\ vote.pc = "idle"
    /\ \E h \in SampleHeaders :
         vote' = [vote EXCEPT !.pc = "encoded", !.header = h,
                              !.triple = encode_header_triple(h)]
    /\ UNCHANGED <<quant, det, enc, video, dec, codec, rs, cfg, ser>>

\* for i in k*HEADER_SIZE..(k+1)*HEADER_SIZE { triple[i] = ... }
OverwriteCopy ==
    /\ vote.pc = "encoded"
    /\ Cardinality(vote.overwritten) < MaxOverwritten
    /\ \E k \in (0..(HEADER_COPIES - 1)) \ vote.overwritten :
       \E pat \in OverwritePatterns :
         vote' = [vote EXCEPT
                    !.overwritten = @ \cup {k},
                    !.triple = [i \in 1..(HEADER_SIZE * 3) |->
                                  IF (i - 1) \div HEADER_SIZE = k
                                  THEN pat[((i - 1) % HEADER_SIZE) + 1]
                                  ELSE vote.triple[i]]]
    /\ UNCHANGED <<quant, det, enc, video, dec, codec, rs, cfg, ser>>

\* let recovered = decode_header_triple(&triple)
DecodeTriple ==
    /\ vote.pc = "encoded"
    /\ vote' = [vote EXCEPT
                  !.pc = "decoded",
                  !.voted = [i \in 1..HEADER_SIZE |->
                               voted_byte(Bytes(vote.triple), i - 1)],
                  !.result = decode_header_triple(Bytes(vote.triple))]
    /\ UNCHANGED <<quant, det, enc, video, dec, codec, rs, cfg, ser>>

VoteNext == EncodeTriple \/ OverwriteCopy \/ DecodeTriple

SpecVote == Init /\ [][VoteNext]_vars

\* The value at least two of a, b, c hold, the first when all three differ.
TwoOfThreeOrFirst(a, b, c) ==
    IF \E v \in {a, b, c} : Cardinality({k \in 1..3 : <<a, b, c>>[k] = v}) >= 2
    THEN CHOOSE v \in {a, b, c} :
             Cardinality({k \in 1..3 : <<a, b, c>>[k] = v}) >= 2
    ELSE a

\* C9: at each of the 90 positions the voted byte is the one two copies
\* agree on, the first copy's when none do, and the result is the parse of
\* the voted buffer; so with at most one copy overwritten, by any bytes,
\* decode_header_triple returns the encoded header.
C9_TripleVote ==
    vote.pc = "decoded" =>
        /\ \A i \in 1..HEADER_SIZE :
             vote.voted[i] = TwoOfThreeOrFirst(vote.triple[i],
                                               vote.triple[HEADER_SIZE + i],
                                               vote.triple[HEADER_SIZE * 2 + i])
        /\ vote.result = deserialize(Bytes(vote.voted))
        /\ Cardinality(vote.overwritten) <= 1 => vote.result = Ok(vote.header)

\* C9 witness: the first copy was overwritten and the header came back.
C9_Witness ==
    /\ vote.pc = "decoded"
    /\ vote.overwritten = {0}
    /\ vote.triple[1] # MAGIC[1]
    /\ vote.result = Ok(vote.header)

(***************************************************************************)
(* Detection of the configuration (decode.rs, detect_config_from_frame):   *)
(* the encoder paints the first frame of a small file with a valid         *)
(* configuration, and the decoder tries the candidates in order.           *)
(***************************************************************************)
\* The values of ecc_len tried: the least, the default, the largest.
DetectEccLens == {1, 32, 254}

\* The files whose first frame is painted.
DetectFiles == {<<7>>, <<86, 83, 84, 82, 1>>}

\* encode: the first frame of the file, no password.
PaintFirstFrame ==
    /\ det.pc = "idle"
    /\ \E c \in 0..(NumCandidates - 1) : \E ecc_len \in DetectEccLens :
       \E file \in DetectFiles :
         /\ FrameConfig_new(Candidate(c).block_size, Candidate(c).levels,
                            ecc_len) = "ok"
         /\ LET config == FrameConfig(Candidate(c).block_size,
                                      Candidate(c).levels, ecc_len)
            IN  det' = [det EXCEPT
                          !.pc = "trying",
                          !.painted = config,
                          !.img = encode_frame(0, 1, config, Len(file), file,
                                               Fill(12, 0), Fill(16, 0))]
    /\ UNCHANGED <<quant, vote, enc, video, dec, codec, rs, cfg, ser>>

\* The detection after the pass for cand, which read len bytes of header
\* area and ended with r.
AfterCandidate(cand, len, r) ==
    [det EXCEPT !.cand = @ + 1,
                !.tried = [block_size |-> cand.block_size,
                           levels |-> cand.levels, len |-> len,
                           triple |-> IF r.ok THEN "ok" ELSE r.err],
                !.pc = IF r.ok THEN "done" ELSE "trying",
                !.result = IF r.ok THEN r ELSE <<>>]

\* detect_config_from_frame: one pass of the inner loop.
TryCandidate ==
    /\ det.pc = "trying"
    /\ det.cand < NumCandidates
    /\ det' = AfterCandidate(
                  Candidate(det.cand),
                  BufLen(decode_header_area(det.img,
                                            Candidate(det.cand).block_size,
                                            Candidate(det.cand).levels)),
                  try_candidate(det.img, Candidate(det.cand).block_size,
                                Candidate(det.cand).levels))
    /\ UNCHANGED <<quant, vote, enc, video, dec, codec, rs, cfg, ser>>

\* detect_config_from_frame: the loops ended without a match.
DetectFail ==
    /\ det.pc = "trying"
    /\ det.cand = NumCandidates
    /\ det' = [det EXCEPT !.pc = "done", !.result = Err("Header")]
    /\ UNCHANGED <<quant, vote, enc, video, dec, codec, rs, cfg, ser>>

DetectNext == PaintFirstFrame \/ TryCandidate \/ DetectFail

SpecDetect == Init /\ [][DetectNext]_vars

\* C3 as stated: for every valid (block_size, levels) the buffer
\* decode_header_area returns has ceil(LW * 2 * 3 * log2(levels) / 8) bytes,
\* at least 270, so decode_header_triple never rejects it as too short.
C3_HeaderAreaHoldsTriple ==
    det.tried # <<>> =>
        /\ det.tried.len =
             CeilDiv((FRAME_WIDTH \div det.tried.block_size) * HEADER_ROWS * 3
                         * log2_u8(det.tried.levels), 8)
        /\ det.tried.len >= HEADER_COPIES * HEADER_SIZE
        /\ det.tried.triple # "Header" \/ det.tried.len >= HEADER_COPIES * HEADER_SIZE

\* C2 as stated: for a first frame painted with any valid (B, L) the
\* detection returns the first candidate whose header names the candidate,
\* and that candidate is (B, L).
C2_DetectsPaintedConfig ==
    det.pc = "done" =>
        /\ det.result.ok
        /\ det.result.val.config.block_size = det.painted.block_size
        /\ det.result.val.config.levels = det.painted.levels

(***************************************************************************)
(* The pipelines (encode.rs, decode.rs): a file is encoded, the demuxer    *)
(* delivers the painted images and they are decoded; then the demuxer      *)
(* delivers them again, short of the last image, with one byte of a data   *)
(* area altered, or followed by extra images, or delivers an image the     *)
(* encoder never painted, and the decode runs again with the password of   *)
(* the run before.                                                         *)
(***************************************************************************)
\* The length of the file that needs two frames.
LongLen == 94

\* The most extra images the demuxer appends.
MaxExtra == 2

SmallFiles == {<<>>, <<1, 2, 3>>}

LongFile == [i \in 1..LongLen |-> (7 * i) % 256] \o <<>>

Passwords == {<<112, 119>>, <<119>>}

EncodePasswords == {None, Some(<<112, 119>>)}

DecodePasswords == {None} \cup {Some(pw) : pw \in Passwords}

\* What rand::fill may leave in the nonce and in the salt.  That all 28
\* bytes come out zero is as unlikely as a forged tag and left out the same
\* way.
Draws ==
    {[nonce |-> Fill(12, 9), salt |-> Fill(16, 5)],
     [nonce |-> Fill(12, 0), salt |-> Fill(16, 5)],
     [nonce |-> Fill(12, 9), salt |-> Fill(16, 0)]}

\* (block_size, levels, ecc_len) of the runs.
PipeConfigs == {<<2, 4, 32>>, <<16, 2, 32>>, <<8, 8, 1>>}

\* The configuration with the least capacity per frame that decodes.
LongConfig == <<16, 4, 254>>

Scenarios ==
    {[file |-> f, password |-> pw, config |-> c] :
        f \in SmallFiles, pw \in EncodePasswords, c \in PipeConfigs}

LongScenarios ==
    {[file |-> LongFile, password |-> pw, config |-> LongConfig] :
        pw \in EncodePasswords}

\* As encode_begin below, the frames counted without the test of the
\* capacity (none when the capacity is zero).
encode_begin_unchecked(file, password, config, draw) ==
    [enc EXCEPT
       !.file = file, !.password = password, !.config = config,
       !.payload = IF password # None
                   THEN encrypt(file, password[1], draw.nonce, draw.salt)
                   ELSE file,
       !.nonce = IF password # None THEN draw.nonce ELSE Fill(12, 0),
       !.salt = IF password # None THEN draw.salt ELSE Fill(16, 0),
       !.pc = "frames",
       !.num_frames = 0]

\* encode, steps 1 to 3, of file with password and config, rand::fill
\* leaving draw: read the file, encrypt or pass through, fail when no byte
\* fits in a frame, count the frames.
encode_begin(file, password, config, draw) ==
    LET nonce == IF password # None THEN draw.nonce ELSE Fill(12, 0)
        salt == IF password # None THEN draw.salt ELSE Fill(16, 0)
        payload == IF password # None
                   THEN encrypt(file, password[1], nonce, salt)
                   ELSE file
        max_raw == max_raw_per_frame(config)
    IN  [enc EXCEPT
           !.file = file, !.password = password,
           !.config = config, !.payload = payload,
           !.nonce = nonce, !.salt = salt,
           !.pc = IF max_raw = 0 THEN "done" ELSE "frames",
           !.result = IF max_raw = 0 THEN Err("Config") ELSE <<>>,
           !.num_frames = IF max_raw = 0 THEN 0
                          ELSE CeilDiv(Len(payload), max_raw)]

\* encode, steps 1 to 3, with a configuration from FrameConfig::new; the
\* arguments are drawn from scenarios, what rand::fill leaves from draws.
EncodeWith(scenarios, draws) ==
    /\ enc.pc = "idle"
    /\ \E sc \in scenarios : \E draw \in draws :
         /\ FrameConfig_new(sc.config[1], sc.config[2], sc.config[3]) = "ok"
         /\ enc' = encode_begin(sc.file, sc.password,
                                FrameConfig(sc.config[1], sc.config[2],
                                            sc.config[3]),
                                draw)
    /\ UNCHANGED <<quant, vote, det, video, dec, codec, rs, cfg, ser>>

\* encode of a small file.
EncodeStart == EncodeWith(Scenarios, Draws)

\* encode of the file that needs two frames.
EncodeStartLong ==
    EncodeWith(LongScenarios, {[nonce |-> Fill(12, 9), salt |-> Fill(16, 5)]})

\* encode, step 5: one pass of the loop over the frames.
EncodeFrame ==
    /\ enc.pc = "frames"
    /\ Len(enc.frames) < enc.num_frames
    /\ enc' = [enc EXCEPT
                 !.frames = Append(@, encode_frame(Len(enc.frames),
                                                   enc.num_frames, enc.config,
                                                   Len(enc.file), enc.payload,
                                                   enc.nonce, enc.salt))]
    /\ UNCHANGED <<quant, vote, det, video, dec, codec, rs, cfg, ser>>

\* As EncodeMux below, the muxer not waiting for the loop to end.
EncodeMux_early ==
    /\ enc.pc = "frames"
    /\ Len(enc.frames) <= enc.num_frames
    /\ enc' = [enc EXCEPT
                 !.pc = "done",
                 !.result = IF enc.num_frames = 0 THEN Err("Ffmpeg")
                            ELSE Ok(enc.num_frames)]
    /\ UNCHANGED <<quant, vote, det, video, dec, codec, rs, cfg, ser>>

\* encode, step 6: pngs_to_mp4.  FFmpeg finds no image to start from when
\* the loop saved none, and exits with an error.
EncodeMux ==
    /\ enc.pc = "frames"
    /\ Len(enc.frames) = enc.num_frames
    /\ enc' = [enc EXCEPT
                 !.pc = "done",
                 !.result = IF enc.num_frames = 0 THEN Err("Ffmpeg")
                            ELSE Ok(enc.num_frames)]
    /\ UNCHANGED <<quant, vote, det, video, dec, codec, rs, cfg, ser>>

\* mp4_to_pngs: the demuxer delivers the painted images unchanged.
Deliver ==
    /\ enc.pc = "done"
    /\ enc.result.ok
    /\ video.channel = "none"
    /\ video' = [channel |-> "clean", frames |-> enc.frames]
    /\ UNCHANGED <<quant, vote, det, enc, dec, codec, rs, cfg, ser>>

\* The decode run of the unchanged images is over and none has followed.
FirstRunOver ==
    /\ dec.pc = "done"
    /\ video.channel = "clean"
    /\ dec.earlier = <<>>

\* The decode pipeline as it starts after a run that ended.
DecAfter == [DecIdle EXCEPT !.earlier = [password |-> dec.password,
                                         outcome |-> dec.outcome,
                                         ciphertext |-> dec.ciphertext]]

\* The demuxer delivers fewer images: the last is missing.
DeliverShort ==
    /\ FirstRunOver
    /\ video' = [channel |-> "short",
                 frames |-> SubSeq(enc.frames, 1, Len(enc.frames) - 1)]
    /\ dec' = DecAfter
    /\ UNCHANGED <<quant, vote, det, enc, codec, rs, cfg, ser>>

\* The Rust index, in the rs_data of a frame, of byte k of its frame data.
RsIndex(k, config) ==
    (k \div rs_data_len(config)) * 255 + (k % rs_data_len(config))

\* One byte of the payload carried in the data area of one image is altered
\* (the blocks that carry it are painted with the altered value).
DeliverAltered ==
    /\ FirstRunOver
    /\ \E f \in 1..Len(enc.frames) :
       \E k \in {0, Len(FrameData(enc.payload, f - 1,
                                  max_raw_per_frame(enc.config))) - 1} :
       \E delta \in {1} :
         LET at == RsIndex(k, enc.config) + 1
             img == enc.frames[f]
         IN  /\ k >= 0
             /\ video' = [channel |-> "altered",
                          frames |-> [enc.frames EXCEPT
                                        ![f] = [img EXCEPT
                                                  !.rs_data[at] = (@ + delta) % 256]]]
    /\ dec' = DecAfter
    /\ UNCHANGED <<quant, vote, det, enc, codec, rs, cfg, ser>>

\* The demuxer delivers extra images after the painted ones: all white, or
\* the first image again.
DeliverExtra ==
    /\ FirstRunOver
    /\ \E n \in 1..MaxExtra :
       \E extra \in {FlatImage(255), enc.frames[1]} :
         video' = [channel |-> "extra",
                   frames |-> enc.frames \o [k \in 1..n |-> extra]]
    /\ dec' = DecAfter
    /\ UNCHANGED <<quant, vote, det, enc, codec, rs, cfg, ser>>

\* The video is not one the encoder made: a single black image.
DeliverForeign ==
    /\ FirstRunOver
    /\ video' = [channel |-> "foreign", frames |-> <<FlatImage(0)>>]
    /\ dec' = DecAfter
    /\ UNCHANGED <<quant, vote, det, enc, codec, rs, cfg, ser>>

\* let (first_header, config) = detect_config_from_frame(&first_img)?,
\* first being what the detection returned.
AfterDetect(password, first) ==
    IF ~first.ok
    THEN [dec EXCEPT !.pc = "done", !.password = password,
                     !.outcome = Failed("Header")]
    ELSE [dec EXCEPT !.pc = "frames", !.password = password,
                     !.first_header = first.val.header,
                     !.config = first.val.config]

\* decode, steps 1 to 3: list the images, detect the configuration from the
\* first.
DecodeStart ==
    /\ dec.pc = "idle"
    /\ video.channel # "none"
    /\ \E password \in DecodePasswords :
         /\ dec.earlier # <<>> => password = dec.earlier.password
         /\ dec' =
              IF video.frames = <<>>
              THEN [dec EXCEPT !.pc = "done", !.password = password,
                               !.outcome = Failed("Ffmpeg")]
              ELSE AfterDetect(password,
                               detect_config_from_frame(video.frames[1]))
    /\ UNCHANGED <<quant, vote, det, enc, video, codec, rs, cfg, ser>>

\* As loop_continues below, without the break.
loop_continues_to_the_end(i, total_frames, delivered) == i < delivered

\* for (i, frame_path) in frame_paths.iter().enumerate()
\*     { if i >= total_frames { break; } ... }
loop_continues(i, total_frames, delivered) ==
    i < delivered /\ i < total_frames

\* As frame_data_len below, no byte expected of a frame whose header is
\* unreadable.
frame_data_len_or_nothing(fh, config) ==
    IF fh.ok THEN fh.val.data_length ELSE 0

\* let data_len = match decode_header_triple(&header_area)
\*     { Ok(fh) => fh.data_length as usize, Err(_) => config.max_raw_per_frame() }
frame_data_len(fh, config) ==
    IF fh.ok THEN fh.val.data_length ELSE max_raw_per_frame(config)

\* let decoded = rs_decode(..).map_err(..)?; all_data.extend_from_slice(&decoded)
AfterRsDecode(rs_decoded) ==
    IF ~rs_decoded.ok
    THEN [dec EXCEPT !.pc = "done", !.loaded = @ \cup {dec.i},
                     !.outcome = Failed("Ecc")]
    ELSE [dec EXCEPT !.i = @ + 1, !.loaded = @ \cup {dec.i},
                     !.ciphertext = @ \o rs_decoded.val]

\* The pass of the loop over the image img.
decode_frame(img, config, sent) ==
    AfterRsDecode(
        rs_decode(decode_data_area(img, config), config.ecc_len,
                  rs_data_len(config),
                  frame_data_len(
                      decode_header_triple(
                          decode_header_area(img, config.block_size,
                                             config.levels)),
                      config),
                  sent))

\* decode, step 4: one pass of the loop over the images.
DecodeFrame ==
    /\ dec.pc = "frames"
    /\ loop_continues(dec.i, dec.first_header.total_frames, Len(video.frames))
    /\ dec' = decode_frame(video.frames[dec.i + 1], dec.config,
                           IF dec.i < Len(enc.frames)
                           THEN enc.frames[dec.i + 1].rs_data
                           ELSE <<>>)
    /\ UNCHANGED <<quant, vote, det, enc, video, codec, rs, cfg, ser>>

\* As is_encrypted below, with "and" for "or".
is_encrypted_when_both(nonce, salt) ==
    nonce # Fill(12, 0) /\ salt # Fill(16, 0)

\* let encrypted = nonce != [0u8; 12] || salt != [0u8; 16];
is_encrypted(nonce, salt) ==
    nonce # Fill(12, 0) \/ salt # Fill(16, 0)

\* let output_data = &plaintext[..file_size as usize];
\* std::fs::write(output_path, output_data)?: the slice panics when the
\* plaintext is shorter than file_size.
write_output(plaintext, file_size) ==
    IF ~plaintext.ok THEN Failed(plaintext.err)
    ELSE IF file_size > Len(plaintext.val) THEN Panicked
    ELSE Written(SubSeq(plaintext.val, 1, file_size))

\* decode, steps 5 and 6: decrypt or pass through, cut to the file size,
\* write the output file.
DecodeFinish ==
    /\ dec.pc = "frames"
    /\ ~loop_continues(dec.i, dec.first_header.total_frames, Len(video.frames))
    /\ LET nonce == dec.first_header.nonce
           salt == dec.first_header.salt
           encrypted == is_encrypted(nonce, salt)
       IN  dec' = [dec EXCEPT
                     !.pc = "done",
                     !.branch = IF ~encrypted THEN "pass through"
                                ELSE IF dec.password = None THEN "no password"
                                ELSE "decrypt",
                     !.outcome = write_output(
                                     IF ~encrypted THEN Ok(dec.ciphertext)
                                     ELSE IF dec.password = None
                                     THEN Err("Crypto")
                                     ELSE decrypt(dec.ciphertext,
                                                  dec.password[1], nonce, salt),
                                     dec.first_header.file_size)]
    /\ UNCHANGED <<quant, vote, det, enc, video, codec, rs, cfg, ser>>

Next ==
    \/ EncodeStart
    \/ EncodeFrame
    \/ EncodeMux
    \/ Deliver
    \/ DeliverShort
    \/ DeliverAltered
    \/ DeliverExtra
    \/ DeliverForeign
    \/ DecodeStart
    \/ DecodeFrame
    \/ DecodeFinish

Spec == Init /\ [][Next]_vars

\* The pipelines over one frame and over two, the images delivered
\* unchanged and then short of the last.
FramesNext ==
    \/ EncodeStart
    \/ EncodeStartLong
    \/ EncodeFrame
    \/ EncodeMux
    \/ Deliver
    \/ DeliverShort
    \/ DecodeStart
    \/ DecodeFrame
    \/ DecodeFinish

SpecFrames == Init /\ [][FramesNext]_vars

\* The header of a painted image, as the encoder serialized it.
PaintedHeader(img) == deserialize(Bytes(img.header_data))

\* C1 as stated: the images handed unchanged to the decode pipeline with
\* the password of the encode, the output is the file encoded, for every
\* file, every valid configuration, with or without a password.
C1_RoundTrip ==
    (dec.pc = "done" /\ video.channel = "clean" /\ dec.password = enc.password)
        => dec.outcome = Written(enc.file)

\* C4 as stated: when fewer images are delivered than the first header's
\* total_frames, decode ends with an Ecc error and in no other way.
C4_ShortSequenceIsEccError ==
    (/\ dec.pc = "done"
     /\ dec.first_header # <<>>
     /\ Len(video.frames) < dec.first_header.total_frames)
        => dec.outcome = Failed("Ecc")

\* C5: the images at positions >= total_frames are not header-decoded, not
\* RS-decoded and contribute no bytes: a decode run over the painted images
\* followed by extra images gathers what the run without them gathered and
\* ends as it ended.
C5_ExtraImagesIgnored ==
    /\ dec.first_header # <<>> =>
         \A i \in dec.loaded : i < dec.first_header.total_frames
    /\ (dec.pc = "done" /\ video.channel = "extra") =>
         /\ dec.outcome = dec.earlier.outcome
         /\ dec.ciphertext = dec.earlier.ciphertext

\* C5 witness: two white images followed the painted one, and the file was
\* written.
C5_Witness ==
    /\ dec.pc = "done"
    /\ video.channel = "extra"
    /\ dec.first_header # <<>>
    /\ Len(video.frames) = dec.first_header.total_frames + MaxExtra
    /\ video.frames[Len(video.frames)] = FlatImage(255)
    /\ dec.loaded = {0}
    /\ dec.outcome = Written(enc.file)

\* C6: encoded without a password, the payload is the file and every header
\* carries zero nonce and salt; decode passes the payload through exactly
\* when nonce and salt of the first header are both zero, password or not,
\* and fails with a Crypto error when either is non-zero and no password
\* is given.
C6_EncryptionSentinel ==
    /\ (enc.pc # "idle" /\ enc.password = None) =>
         /\ enc.payload = enc.file
         /\ \A f \in 1..Len(enc.frames) :
              /\ PaintedHeader(enc.frames[f]).val.nonce = Fill(12, 0)
              /\ PaintedHeader(enc.frames[f]).val.salt = Fill(16, 0)
    /\ dec.branch # "" =>
         LET zero == /\ dec.first_header.nonce = Fill(12, 0)
                     /\ dec.first_header.salt = Fill(16, 0)
             size == dec.first_header.file_size
         IN  /\ dec.branch = "pass through" <=> zero
             /\ dec.branch = "pass through" =>
                  dec.outcome = IF size > Len(dec.ciphertext) THEN Panicked
                                ELSE Written(SubSeq(dec.ciphertext, 1, size))
             /\ dec.branch = "no password" <=> (~zero /\ dec.password = None)
             /\ dec.branch = "no password" => dec.outcome = Failed("Crypto")

\* C6 witness: a file encoded without a password was decoded with one, and
\* passed through.
C6_Witness ==
    /\ dec.pc = "done"
    /\ enc.password = None
    /\ dec.password # None
    /\ dec.branch = "pass through"
    /\ dec.outcome = Written(enc.file)
    /\ enc.file # <<>>

\* C7 as stated: a decode run that ends with an error writes no output, the
\* write comes after every one of total_frames frames was RS-decoded, and
\* decoding with a password other than the encoding password fails with a
\* Crypto error.
C7_ErrorsLeaveNoOutput ==
    dec.pc = "done" =>
        /\ dec.outcome.kind # "written" => dec.outcome.output = <<>>
        /\ dec.outcome.kind = "written" =>
             dec.loaded = 0..(dec.first_header.total_frames - 1)
        /\ (/\ video.channel = "clean"
            /\ enc.password # None
            /\ dec.password # None
            /\ dec.password # enc.password) => dec.outcome = Failed("Crypto")

\* C8 as stated: encoded with a password, one byte of the payload in the
\* data area altered, decode fails with a Crypto error.
C8_AlteredByteIsCryptoFailure ==
    (/\ dec.pc = "done"
     /\ video.channel = "altered"
     /\ enc.password # None
     /\ dec.password = enc.password) => dec.outcome = Failed("Crypto")

\* C8 (amended): encoded with a password, one byte of the payload in the
\* data area altered: with ecc_len >= 2 the byte is corrected and decode
\* ends as it ends on the unaltered images; with ecc_len = 1 it fails with
\* an Ecc error, unless it fails on the unaltered images with a Header
\* error, and then it fails the same way.
C8_AlteredByteCorrectedOrEcc ==
    (dec.pc = "done" /\ video.channel = "altered" /\ enc.password # None) =>
        IF enc.config.ecc_len >= 2 \/ dec.earlier.outcome = Failed("Header")
        THEN dec.outcome = dec.earlier.outcome
        ELSE dec.outcome = Failed("Ecc")

\* C8 witness: the altered byte was corrected and the file came back.
C8_Witness ==
    /\ dec.pc = "done"
    /\ video.channel = "altered"
    /\ enc.password # None
    /\ dec.password = enc.password
    /\ enc.config.ecc_len >= 2
    /\ video.frames # enc.frames
    /\ dec.outcome = Written(enc.file)

(***************************************************************************)
(* The pipelines under pixel noise (integration.rs,                        *)
(* test_roundtrip_with_noise): the painted images are decoded as they are, *)
(* and then again with noise on at most one pixel of every block.          *)
(***************************************************************************)
\* (block_size, levels, ecc_len) of the runs under noise; the first is the
\* test's.
NoiseConfigs == {<<4, 4, 32>>, <<2, 2, 32>>, <<8, 8, 1>>, <<16, 2, 32>>}

NoiseScenarios ==
    {[file |-> <<1, 2, 3>>, password |-> pw, config |-> c] :
        pw \in EncodePasswords, c \in NoiseConfigs}

\* The noise of the test, and a noise that drives one pixel of every block
\* of side block_size to the ends of the range.
NoisePatterns(block_size) ==
    {[sx |-> 11, sy |-> 7, delta |-> <<10, -8, 5>>],
     [sx |-> block_size, sy |-> block_size, delta |-> <<255, -255, 100>>]}

\* encode of a file for the runs under noise.
EncodeStartNoise ==
    EncodeWith(NoiseScenarios, {[nonce |-> Fill(12, 9), salt |-> Fill(16, 5)]})

\* The demuxer delivers the painted images with noise on some pixels, at
\* most one in every block.
DeliverNoisy ==
    /\ FirstRunOver
    /\ \E noise \in NoisePatterns(enc.config.block_size) :
         /\ noise.sx >= enc.config.block_size
         /\ noise.sy >= enc.config.block_size
         /\ video' = [channel |-> "noisy",
                      frames |-> [f \in 1..Len(enc.frames) |->
                                    [enc.frames[f] EXCEPT !.noise = noise]]]
    /\ dec' = DecAfter
    /\ UNCHANGED <<quant, vote, det, enc, codec, rs, cfg, ser>>

NoiseNext ==
    \/ EncodeStartNoise
    \/ EncodeFrame
    \/ EncodeMux
    \/ Deliver
    \/ DeliverNoisy
    \/ DecodeStart
    \/ DecodeFrame
    \/ DecodeFinish

SpecNoise == Init /\ [][NoiseNext]_vars

\* C11 as stated: a painted frame with at most one pixel perturbed in every
\* block (block_size >= 2) decodes to the header and the data of the clean
\* frame, and the round trip recovers the file.
C11_NoisyRoundTrip ==
    (/\ dec.pc = "done"
     /\ video.channel = "noisy"
     /\ enc.config.block_size >= 2
     /\ dec.password = enc.password) =>
        /\ dec.first_header = PaintedHeader(enc.frames[1]).val
        /\ dec.ciphertext = enc.payload
        /\ dec.outcome = Written(enc.file)

(***************************************************************************)
(* The frame codec (frame.rs, test_frame_encode_decode_roundtrip): a       *)
(* header buffer and a data buffer are painted into an image and the two   *)
(* areas are read back.                                                    *)
(***************************************************************************)
\* How many bytes past the painted buffer the read-back is kept.
CodecTail == 4

\* The header buffers painted: vec![0xAB; HEADER_SIZE * 3] of the test, the
\* triple of a header, and bytes that all differ from their neighbours.
CodecHeaders ==
    {Fill(HEADER_SIZE * 3, 171),
     [i \in 1..(HEADER_SIZE * 3) |-> (37 * i) % 256] \o <<>>}
        \cup {encode_header_triple(h) : h \in SampleHeaders}

\* The data buffers painted: empty, one byte, a run of 0x55 as in the test,
\* and one RS block and a part of the next.
CodecDatas ==
    {<<>>, <<255>>, Fill(64, 85), [i \in 1..300 |-> (11 * i + 3) % 256] \o <<>>}

\* &buf[..n], as far as the buffer goes.
Prefix(buf, n) == [k \in 1..Min(n, BufLen(buf)) |-> BufAt(buf, k - 1)] \o <<>>

\* What is kept of an area read back: its length, its first n bytes and
\* its last byte.
AreaRead(buf, n) ==
    [len |-> BufLen(buf), bytes |-> Prefix(buf, n),
     last |-> IF BufLen(buf) = 0 THEN 0 ELSE BufAt(buf, BufLen(buf) - 1)]

\* let img = encode_frame_to_image(&header_data, &rs_data, &config)
PaintFrame ==
    /\ codec.pc = "idle"
    /\ \E c \in 0..(NumCandidates - 1) : \E header_data \in CodecHeaders :
       \E rs_data \in CodecDatas :
         /\ FrameConfig_new(Candidate(c).block_size, Candidate(c).levels, 32)
              = "ok"
         /\ codec' = [codec EXCEPT
                        !.pc = "painted",
                        !.config = FrameConfig(Candidate(c).block_size,
                                               Candidate(c).levels, 32),
                        !.header_data = header_data,
                        !.rs_data = rs_data,
                        !.img = encode_frame_to_image(
                                    header_data, rs_data,
                                    FrameConfig(Candidate(c).block_size,
                                                Candidate(c).levels, 32))]
    /\ UNCHANGED <<quant, vote, det, enc, video, dec, rs, cfg, ser>>

\* let decoded_header = decode_header_area(&img, config.block_size, config.levels)
ReadHeaderArea ==
    /\ codec.pc = "painted"
    /\ codec' = [codec EXCEPT
                   !.pc = "header read",
                   !.header_area =
                       AreaRead(decode_header_area(codec.img,
                                                   codec.config.block_size,
                                                   codec.config.levels),
                                Len(codec.header_data) + CodecTail)]
    /\ UNCHANGED <<quant, vote, det, enc, video, dec, rs, cfg, ser>>

\* let decoded_data = decode_data_area(&img, &config)
ReadDataArea ==
    /\ codec.pc = "header read"
    /\ codec' = [codec EXCEPT
                   !.pc = "read",
                   !.data_area =
                       AreaRead(decode_data_area(codec.img, codec.config),
                                Len(codec.rs_data) + CodecTail)]
    /\ UNCHANGED <<quant, vote, det, enc, video, dec, rs, cfg, ser>>

CodecNext == PaintFrame \/ ReadHeaderArea \/ ReadDataArea

SpecCodec == Init /\ [][CodecNext]_vars

\* s begins with p and holds zeros after it.
BeginsWithThenZero(s, p) ==
    /\ Len(s) >= Len(p)
    /\ \A k \in 1..Len(s) : s[k] = IF k <= Len(p) THEN p[k] ELSE 0

\* C12 as stated: for every valid configuration, every 270-byte header
\* buffer and every data buffer that fits the data area, the header area
\* read back begins with the header buffer, the data area read back begins
\* with the data buffer, and what follows is zero.
C12_FrameCodecRoundTrip ==
    codec.pc = "read" =>
        /\ BeginsWithThenZero(codec.header_area.bytes, codec.header_data)
        /\ BeginsWithThenZero(codec.data_area.bytes, codec.rs_data)
        /\ codec.data_area.len = BitWriterLen(data_area_pixels(codec.config)
                                               * bits_per_pixel(codec.config))
        /\ codec.data_area.last = 0

(***************************************************************************)
(* The Reed-Solomon stage (ecc.rs, and its tests): data is encoded, bytes  *)
(* of one block are changed, the buffer is cut or extended, and the        *)
(* buffer is decoded.                                                      *)
(***************************************************************************)
\* The values of ecc_len tried: capacity 0, 1, 16 and 127.
RsEccLens == {1, 2, 32, 254}

\* The most blocks the data tried spans.
MaxBlocks == 3

\* The lengths of the data tried, for chunks of rs_len bytes: none, one
\* byte, a full chunk, a chunk and a byte, and a part of the last block.
RsDataLens(rs_len) ==
    {0, 1, rs_len, rs_len + 1, (MaxBlocks - 1) * rs_len + (rs_len + 1) \div 2}

\* (0..len).map(|i| (i % 256) as u8), as in test_rs_multiple_blocks, from 1
\* on so that no byte of the data is the zero of the padding.
RsData(len) == [i \in 1..len |-> (i % 255) + 1] \o <<>>

\* Block blk (from 0) of the buffer, as far as the buffer goes.
BlockOf(buffer, blk) ==
    SubSeq(buffer, blk * 255 + 1, Min((blk + 1) * 255, Len(buffer)))

\* The buffer with its block blk replaced by block.
WithBlock(buffer, blk, block) ==
    [k \in 1..Len(buffer) |->
        IF (k - 1) \div 255 = blk THEN block[((k - 1) % 255) + 1]
        ELSE buffer[k]] \o <<>>

\* encoded[i] = encoded[i].wrapping_add(delta) for the n places from at on.
Changed(block, at, n, delta) ==
    [k \in 1..Len(block) |->
        IF k > at /\ k <= at + n THEN (block[k] + delta) % 256
        ELSE block[k]] \o <<>>

\* let encoded = rs_encode(data, ecc_len, rs_data_len)
RsEncode ==
    /\ rs.pc = "idle"
    /\ \E ecc_len \in RsEccLens : \E len \in RsDataLens(255 - ecc_len) :
         rs' = [rs EXCEPT !.pc = "encoded", !.data = RsData(len),
                          !.ecc_len = ecc_len,
                          !.encoded = rs_encode(RsData(len), ecc_len,
                                                255 - ecc_len),
                          !.received = rs_encode(RsData(len), ecc_len,
                                                 255 - ecc_len)]
    /\ UNCHANGED <<quant, vote, det, enc, video, dec, codec, cfg, ser>>

\* Bytes of one block are changed: the first n of the block, the n from its
\* last data byte on, or its last n, n being one, the capacity or one more;
\* or the whole block becomes the codeword of other data.  The bytes change
\* by odd amounts, which the parity of the model never misses.
RsChange ==
    /\ rs.pc = "encoded"
    /\ rs.changed = ""
    /\ rs.resized = ""
    /\ \E blk \in 0..((Len(rs.encoded) \div 255) - 1) :
         \/ \E n \in {1, rs.ecc_len \div 2, rs.ecc_len \div 2 + 1} :
            \E at \in {0, 254 - rs.ecc_len, 255 - n} : \E delta \in {1, 201} :
              /\ n >= 1
              /\ at + n <= 255
              /\ rs' = [rs EXCEPT
                          !.changed = "bytes",
                          !.received = WithBlock(@, blk,
                                           Changed(BlockOf(@, blk), at, n, delta))]
         \/ rs' = [rs EXCEPT
                     !.changed = "codeword",
                     !.received = WithBlock(@, blk,
                                      Encoder_encode(
                                          Changed(SubSeq(BlockOf(@, blk), 1,
                                                         255 - rs.ecc_len),
                                                  0, 1, 1),
                                          rs.ecc_len))]
    /\ UNCHANGED <<quant, vote, det, enc, video, dec, codec, cfg, ser>>

\* The buffer handed to rs_decode is shorter or longer than what rs_encode
\* returned: its last byte or its last block is missing, or a byte or a
\* block follows it.
RsResize ==
    /\ rs.pc = "encoded"
    /\ rs.resized = ""
    /\ \/ /\ Len(rs.received) > 0
          /\ \E cut \in {1, 255} :
               rs' = [rs EXCEPT
                        !.resized = "cut",
                        !.received = SubSeq(@, 1, Len(@) - cut)]
       \/ \E more \in {<<9>>, Fill(255, 9)} :
            rs' = [rs EXCEPT !.resized = "extended",
                             !.received = @ \o more]
    /\ UNCHANGED <<quant, vote, det, enc, video, dec, codec, cfg, ser>>

\* rs_decode(&encoded, ecc_len, rs_data_len, expected_data_len)
RsDecode ==
    /\ rs.pc = "encoded"
    /\ \E expected_data_len \in {0, 1, Len(rs.data),
                                 Len(rs.data) + 255 - rs.ecc_len} :
         rs' = [rs EXCEPT
                  !.pc = "decoded",
                  !.expected_data_len = expected_data_len,
                  !.result = rs_decode(Bytes(rs.received), rs.ecc_len,
                                       255 - rs.ecc_len, expected_data_len,
                                       rs.encoded)]
    /\ UNCHANGED <<quant, vote, det, enc, video, dec, codec, cfg, ser>>

RsNext == RsEncode \/ RsChange \/ RsResize \/ RsDecode

SpecRs == Init /\ [][RsNext]_vars

\* The correction capacity: floor(ecc_len / 2) bytes of a block.
Capacity == rs.ecc_len \div 2

\* The number of places where block blk of the buffer decoded differs from
\* the block rs_encode produced.
ErrorsIn(blk) == Distance(BlockOf(rs.received, blk), BlockOf(rs.encoded, blk))

\* The blocks rs_encode produced.
EncodedBlocks == 0..((Len(rs.encoded) \div 255) - 1)

\* The complete blocks the buffer decoded holds, and the blocks rs_decode
\* needs.
BlocksHeld == Len(rs.received) \div 255

BlocksNeeded == CeilDiv(rs.expected_data_len, 255 - rs.ecc_len)

\* The buffer as rs_encode returned it, in length, was decoded for the
\* length of the data.
DecodedWhole ==
    /\ rs.pc = "decoded"
    /\ rs.resized = ""
    /\ rs.expected_data_len = Len(rs.data)

C14_RsRoundTrip ==
    /\ rs.pc # "idle" =>
         /\ Len(rs.encoded) = 255 * CeilDiv(Len(rs.data), 255 - rs.ecc_len)
         /\ \A blk \in EncodedBlocks : \A i \in 1..(255 - rs.ecc_len) :
              BlockOf(rs.encoded, blk)[i] =
                  IF blk * (255 - rs.ecc_len) + i <= Len(rs.data)
                  THEN rs.data[blk * (255 - rs.ecc_len) + i]
                  ELSE 0
         /\ \A blk \in EncodedBlocks :
              BlockOf(rs.encoded, blk) =
                  Encoder_encode(SubSeq(BlockOf(rs.encoded, blk), 1,
                                        255 - rs.ecc_len), rs.ecc_len)
    /\ (DecodedWhole /\ rs.changed = "") => rs.result = Ok(rs.data)

\* C14 witness: data that ends in the middle of the third block came back.
C14_Witness ==
    /\ DecodedWhole
    /\ rs.changed = ""
    /\ rs.ecc_len = 32
    /\ Len(rs.encoded) = 255 * MaxBlocks
    /\ Len(rs.data) % 223 # 0
    /\ rs.result = Ok(rs.data)

\* rs_decode of the first blocks complete blocks of the buffer, for all the
\* data they hold.
DecodedUpTo(blocks) ==
    rs_decode(Bytes(SubSeq(rs.received, 1, blocks * 255)), rs.ecc_len,
              255 - rs.ecc_len, blocks * (255 - rs.ecc_len), rs.encoded)

\* C15 as stated: rs_decode fails with the insufficient-data error exactly
\* when the buffer holds fewer complete blocks than it needs; otherwise it
\* looks at the blocks it needs and at nothing after them, and its result,
\* when it succeeds, has expected_data_len bytes.
C15_InsufficientIffFewerBlocks ==
    rs.pc = "decoded" =>
        /\ rs.result = EccError("insufficient data") <=> BlocksHeld < BlocksNeeded
        /\ BlocksHeld >= BlocksNeeded =>
             rs.result = Truncated(DecodedUpTo(BlocksNeeded),
                                   rs.expected_data_len)
        /\ rs.result.ok => Len(rs.result.val) = rs.expected_data_len

\* C15 (amended): rs_decode fails with the insufficient-data error exactly
\* when the buffer holds fewer complete blocks than it needs and every
\* complete block it holds is corrected (a block that is not fails the
\* decode first, with the correction error); with enough blocks it looks
\* at the blocks it needs and at nothing after them, and its result, when
\* it succeeds, has expected_data_len bytes.
C15_InsufficientData ==
    rs.pc = "decoded" =>
        /\ rs.result = EccError("insufficient data") <=>
             (BlocksHeld < BlocksNeeded /\ DecodedUpTo(BlocksHeld).ok)
        /\ (BlocksHeld < BlocksNeeded /\ ~DecodedUpTo(BlocksHeld).ok) =>
             rs.result = EccError("RS correction failed")
        /\ BlocksHeld >= BlocksNeeded =>
             rs.result = Truncated(DecodedUpTo(BlocksNeeded),
                                   rs.expected_data_len)
        /\ rs.result.ok => Len(rs.result.val) = rs.expected_data_len

\* C15 witness: the last block was cut off a buffer of three whole blocks
\* and the decode failed for want of data.
C15_Witness ==
    /\ rs.pc = "decoded"
    /\ rs.resized = "cut"
    /\ rs.changed = ""
    /\ BlocksHeld = 2
    /\ BlocksNeeded = 3
    /\ rs.result = EccError("insufficient data")

(***************************************************************************)
(* The frames of the encode loop: the slices of the payload and the        *)
(* headers they carry.                                                     *)
(***************************************************************************)
\* data_length in the header of the f-th image saved.
DataLength(f) == PaintedHeader(enc.frames[f]).val.data_length

\* The bytes of the payload that the images before the f-th carry.
RECURSIVE SliceStart(_)
SliceStart(f) == IF f <= 1 THEN 0 ELSE SliceStart(f - 1) + DataLength(f - 1)

\* Byte k (from 1) of the slice the f-th image carries: the data of its RS
\* blocks, one after another.
SliceByte(f, k) ==
    enc.frames[f].rs_data[((k - 1) \div rs_data_len(enc.config)) * 255
                          + ((k - 1) % rs_data_len(enc.config)) + 1]

\* The f-th image carries len bytes of the payload, those after start.
CarriesSlice(f, start, len) ==
    /\ start + len <= Len(enc.payload)
    /\ CeilDiv(len, rs_data_len(enc.config)) * 255 = Len(enc.frames[f].rs_data)
    /\ \A k \in 1..len : SliceByte(f, k) = enc.payload[start + k]

\* C16: the loop saves ceil(len(payload) / max_raw) images; each carries
\* the bytes of the payload that follow those of the images before it;
\* every image but the last carries max_raw bytes, the last between 1 and
\* max_raw; together they carry the payload, which is the file, and 16 bytes
\* more when a password was given.
C16_PayloadPartition ==
    (enc.pc # "idle" /\ enc.result # Err("Config")) =>
        /\ enc.num_frames = CeilDiv(Len(enc.payload), max_raw_per_frame(enc.config))
        /\ Len(enc.frames) <= enc.num_frames
        /\ Len(enc.payload) =
               Len(enc.file) + (IF enc.password # None THEN 16 ELSE 0)
        /\ \A f \in 1..Len(enc.frames) :
             /\ f < enc.num_frames =>
                  DataLength(f) = max_raw_per_frame(enc.config)
             /\ f = enc.num_frames =>
                  /\ 1 <= DataLength(f)
                  /\ DataLength(f) <= max_raw_per_frame(enc.config)
             /\ CarriesSlice(f, SliceStart(f), DataLength(f))
        /\ enc.pc = "done" => SliceStart(enc.num_frames + 1) = Len(enc.payload)

\* C16 witness: an encrypted payload of 110 bytes went into two images, 93
\* bytes in the first and 17 in the second.
C16_Witness ==
    /\ enc.pc = "done"
    /\ enc.password # None
    /\ enc.num_frames = 2
    /\ Len(enc.frames) = 2
    /\ Len(enc.payload) = LongLen + 16
    /\ DataLength(1) = max_raw_per_frame(enc.config)
    /\ DataLength(2) = Len(enc.payload) - max_raw_per_frame(enc.config)
    /\ DataLength(2) < max_raw_per_frame(enc.config)

\* The header of the f-th image saved names the run: the fields that every
\* frame of one encode shares.
SharedFields(f) ==
    LET h == PaintedHeader(enc.frames[f]).val
    IN  /\ h.version = PROTOCOL_VERSION
        /\ h.block_size = enc.config.block_size
        /\ h.levels = enc.config.levels
        /\ h.ecc_len = enc.config.ecc_len
        /\ h.rs_data_len = 255 - enc.config.ecc_len
        /\ h.file_size = Len(enc.file)
        /\ h.total_frames = enc.num_frames
        /\ h.nonce = enc.nonce
        /\ h.salt = enc.salt

\* C17: the k-th image saved (frame_00000k.png, the k-th the muxer reads)
\* carries frame_number k - 1; the muxer runs only when all num_frames
\* images are saved; every image carries the same version, block_size,
\* levels, ecc_len, rs_data_len, file_size, total_frames = num_frames, nonce
\* and salt.
C17_HeaderSequence ==
    (enc.pc # "idle" /\ enc.result # Err("Config")) =>
        /\ \A f \in 1..Len(enc.frames) :
             /\ PaintedHeader(enc.frames[f]).ok
             /\ PaintedHeader(enc.frames[f]).val.frame_number = f - 1
             /\ SharedFields(f)
        /\ enc.pc = "done" => Len(enc.frames) = enc.num_frames

\* C17 witness: two images of an encrypted file went to the muxer, numbered
\* 0 and 1, with the nonce and the salt drawn.
C17_Witness ==
    /\ enc.pc = "done"
    /\ enc.result = Ok(2)
    /\ Len(enc.frames) = 2
    /\ PaintedHeader(enc.frames[1]).val.frame_number = 0
    /\ PaintedHeader(enc.frames[2]).val.frame_number = 1
    /\ PaintedHeader(enc.frames[2]).val.total_frames = 2
    /\ PaintedHeader(enc.frames[2]).val.nonce = Fill(12, 9)
    /\ PaintedHeader(enc.frames[2]).val.nonce = PaintedHeader(enc.frames[1]).val.nonce
    /\ PaintedHeader(enc.frames[2]).val.salt = Fill(16, 5)

(***************************************************************************)
(* The configurations the pipelines work on: the one FrameConfig::new      *)
(* returns to the encoder, and the one detect_config_from_frame builds     *)
(* from the first frame of the video it is given.                          *)
(***************************************************************************)
\* The arguments given to FrameConfig::new (u8 each), valid and not.
NewBlockSizes == {0, 1, 7, 16, 32, 255}

NewLevels == {0, 1, 2, 3, 16, 128, 255}

NewEccLens == {0, 1, 254, 255}

\* FrameConfig::new(block_size, levels, ecc_len, 30, 18)
NewConfig ==
    /\ cfg.pc = "idle"
    /\ det.pc = "idle"
    /\ \E block_size \in NewBlockSizes : \E levels \in NewLevels :
       \E ecc_len \in NewEccLens :
         cfg' = [pc |-> "new", block_size |-> block_size, levels |-> levels,
                 ecc_len |-> ecc_len,
                 result |-> IF FrameConfig_new(block_size, levels, ecc_len) = "ok"
                            THEN Ok(FrameConfig(block_size, levels, ecc_len))
                            ELSE Err(FrameConfig_new(block_size, levels, ecc_len))]
    /\ UNCHANGED <<quant, vote, det, enc, video, dec, codec, rs, ser>>

\* encode with the configuration FrameConfig::new returned: the first frame
\* of a file of one byte, no password.
PaintConfigured ==
    /\ cfg.pc = "new"
    /\ cfg.result.ok
    /\ det.pc = "idle"
    /\ det' = [det EXCEPT
                 !.pc = "trying",
                 !.painted = cfg.result.val,
                 !.img = encode_frame(0, 1, cfg.result.val, 1, <<7>>,
                                      Fill(12, 0), Fill(16, 0))]
    /\ UNCHANGED <<quant, vote, enc, video, dec, codec, rs, cfg, ser>>

\* The header of the first frame of a video that another program made: the
\* fields are what that program wrote.
ForeignHeader(block_size, levels, ecc_len) ==
    [version |-> PROTOCOL_VERSION, frame_number |-> 0, total_frames |-> 1,
     block_size |-> block_size, levels |-> levels, file_size |-> 1,
     data_length |-> 1, ecc_len |-> ecc_len, rs_data_len |-> 255 - ecc_len,
     nonce |-> Fill(12, 0), salt |-> Fill(16, 0),
     data_sha256 |-> Fill(32, 0)]

\* (block_size, levels) the foreign frames are painted with, and the
\* ecc_len and the block_size their headers name.
ForeignPairs == {<<2, 4>>, <<8, 8>>}

ForeignEccLens == {0, 32, 255}

ForeignBlockSizes(painted) == {painted, 3}

\* decode is given a video whose first frame another program painted.
PaintForeignFrame ==
    /\ cfg.pc = "idle"
    /\ det.pc = "idle"
    /\ \E pair \in ForeignPairs : \E ecc_len \in ForeignEccLens :
       \E named \in ForeignBlockSizes(pair[1]) :
         det' = [det EXCEPT
                   !.pc = "trying",
                   !.painted = [width |-> FRAME_WIDTH, height |-> FRAME_HEIGHT,
                                block_size |-> pair[1], levels |-> pair[2],
                                ecc_len |-> ecc_len],
                   !.img = encode_frame_to_image(
                               encode_header_triple(
                                   ForeignHeader(named, pair[2], ecc_len)),
                               Fill(255, 7),
                               [width |-> FRAME_WIDTH, height |-> FRAME_HEIGHT,
                                block_size |-> pair[1], levels |-> pair[2],
                                ecc_len |-> ecc_len])]
    /\ UNCHANGED <<quant, vote, enc, video, dec, codec, rs, cfg, ser>>

ConfigNext ==
    \/ NewConfig
    \/ PaintConfigured
    \/ PaintForeignFrame
    \/ TryCandidate
    \/ DetectFail

SpecConfig == Init /\ [][ConfigNext]_vars

\* I1 to I3 of the data model.
SatisfiesI1toI3(block_size, levels, ecc_len) ==
    /\ block_size >= 1
    /\ FRAME_WIDTH % block_size = 0
    /\ FRAME_HEIGHT % block_size = 0
    /\ levels >= 2
    /\ \E e \in 1..7 : levels = 2 ^ e
    /\ 1 <= ecc_len
    /\ ecc_len <= 254

\* FrameConfig::new returned Ok exactly for arguments that satisfy I1 to
\* I3, and a Config error for the others.
NewEnforcesInvariants ==
    cfg.pc = "new" =>
        IF SatisfiesI1toI3(cfg.block_size, cfg.levels, cfg.ecc_len)
        THEN cfg.result = Ok(FrameConfig(cfg.block_size, cfg.levels, cfg.ecc_len))
        ELSE cfg.result = Err("Config")

\* The configuration the detection returned satisfies I1 to I3, so that
\* its rs_data_len is in 1..254.
DetectedSatisfiesInvariants ==
    (det.pc = "done" /\ det.result.ok) =>
        /\ SatisfiesI1toI3(det.result.val.config.block_size,
                           det.result.val.config.levels,
                           det.result.val.config.ecc_len)
        /\ rs_data_len(det.result.val.config) \in 1..254

\* C18: FrameConfig::new returns a Config error for the parameters that
\* violate I1 to I3, and the configuration that the detection builds from
\* the first frame satisfies them, so that rs_data_len is in 1..254.
C18_ConfigInvariants == NewEnforcesInvariants /\ DetectedSatisfiesInvariants

(***************************************************************************)
(* encode with a configuration in which no RS block fits in a frame.  The  *)
(* fields of FrameConfig are public: a caller of encode can build one      *)
(* without FrameConfig::new, whose configurations all hold 46 blocks or    *)
(* more.                                                                   *)
(***************************************************************************)
\* FrameConfig { width, height, block_size, levels, ecc_len, .. }: three
\* in which nothing fits (one data pixel of 3 bits; no data row; no data
\* byte in a block), and the default.
LiteralConfigs ==
    {[width |-> 16, height |-> 48, block_size |-> 16, levels |-> 2,
      ecc_len |-> 32],
     [width |-> 32, height |-> 32, block_size |-> 16, levels |-> 16,
      ecc_len |-> 1],
     [width |-> FRAME_WIDTH, height |-> FRAME_HEIGHT, block_size |-> 2,
      levels |-> 4, ecc_len |-> 255],
     [width |-> FRAME_WIDTH, height |-> FRAME_HEIGHT, block_size |-> 2,
      levels |-> 4, ecc_len |-> 32]}

\* encode, steps 1 to 3, with a configuration built field by field.
EncodeStartLiteral ==
    /\ enc.pc = "idle"
    /\ \E file \in SmallFiles : \E password \in EncodePasswords :
       \E config \in LiteralConfigs : \E draw \in Draws :
         enc' = encode_begin(file, password, config, draw)
    /\ UNCHANGED <<quant, vote, det, video, dec, codec, rs, cfg, ser>>

ZeroNext ==
    \/ EncodeStartLiteral
    \/ EncodeStart
    \/ EncodeStartLong
    \/ EncodeFrame
    \/ EncodeMux
    \/ Deliver
    \/ DecodeStart
    \/ DecodeFrame
    \/ DecodeFinish

SpecZero == Init /\ [][ZeroNext]_vars

\* C19: with a configuration whose max_raw_per_frame is 0, encode ends with
\* a Config error: no frame was counted (nothing was divided by zero), no
\* image painted, and the muxer left no video.
C19_ZeroCapacity ==
    (enc.pc # "idle" /\ max_raw_per_frame(enc.config) = 0) =>
        /\ enc.pc = "done"
        /\ enc.result = Err("Config")
        /\ enc.num_frames = 0
        /\ enc.frames = <<>>
        /\ video.channel = "none"

\* C19 witness: an encrypted file met a frame with one data pixel of three
\* bits, and encode ended with the Config error.
C19_Witness ==
    /\ enc.pc = "done"
    /\ enc.config.width = 16
    /\ data_area_bytes(enc.config) = 0
    /\ max_raw_per_frame(enc.config) = 0
    /\ enc.password # None
    /\ enc.file = <<1, 2, 3>>
    /\ enc.result = Err("Config")
    /\ enc.frames = <<>>

(***************************************************************************)
(* header.rs: a header is serialized, the buffer damaged or not, and       *)
(* parsed.                                                                 *)
(***************************************************************************)
\* The numbers and the bytes the fields of the headers are made of.  Every
\* number of the model stays below 2^31: the largest frame_number is
\* 2^31 - 4 and the largest data_length 2^31 - 1.
SerNumbers == {0, 66051, 2147483644}

SerBytes == {0, 86, 255}

SerVersions == {PROTOCOL_VERSION, 2}

\* A header whose fields all differ from one another where they can.
SerHeader(version, n, b) ==
    [version |-> version, frame_number |-> n, total_frames |-> n + 1,
     block_size |-> b, levels |-> (b + 1) % 256, file_size |-> n + 2,
     data_length |-> n + 3, ecc_len |-> (b + 2) % 256,
     rs_data_len |-> ((n % 65536) + 260) % 65536,
     nonce |-> [i \in 1..12 |-> (b + i) % 256] \o <<>>,
     salt |-> [i \in 1..16 |-> (b + 2 * i) % 256] \o <<>>,
     data_sha256 |-> [i \in 1..32 |-> (b + 3 * i) % 256] \o <<>>]

\* let buf = h.serialize()
Serialize ==
    /\ ser.pc = "idle"
    /\ \E version \in SerVersions : \E n \in SerNumbers : \E b \in SerBytes :
         ser' = [ser EXCEPT
                   !.pc = "serialized",
                   !.header = SerHeader(version, n, b),
                   !.buf = serialize(SerHeader(version, n, b))]
    /\ UNCHANGED <<quant, vote, det, enc, video, dec, codec, rs, cfg>>

\* The lengths a buffer is cut to, the bytes written over the magic, the
\* versions written over the version.
ShortLens == {0, 3, 4, 5, 89}

MagicBytes == {0, 88}

OtherVersions == {0, 2, 255}

\* The buffer s with byte k (from 0) set to v.
WithByte(s, k, v) == [i \in 1..Len(s) |-> IF i = k + 1 THEN v ELSE s[i]] \o <<>>

\* The buffer is changed before it is parsed: cut short, bytes appended,
\* a byte of the magic or the version written over (buf[0..4] = b"XXXX" of
\* test_invalid_magic, one byte at a time); each at most once.
DamageBuffer ==
    /\ ser.pc = "serialized"
    /\ \/ /\ "short" \notin ser.damage
          /\ \E len \in ShortLens :
               /\ len < Len(ser.buf)
               /\ ser' = [ser EXCEPT !.damage = @ \cup {"short"},
                                     !.buf = SubSeq(@, 1, len)]
       \/ /\ "long" \notin ser.damage
          /\ Len(ser.buf) = HEADER_SIZE
          /\ ser' = [ser EXCEPT !.damage = @ \cup {"long"},
                                !.buf = @ \o <<7, 7>>]
       \/ /\ "magic" \notin ser.damage
          /\ \E k \in 0..3 : \E v \in MagicBytes :
               /\ k < Len(ser.buf)
               /\ ser' = [ser EXCEPT !.damage = @ \cup {"magic"},
                                     !.buf = WithByte(@, k, v)]
       \/ /\ "version" \notin ser.damage
          /\ \E v \in OtherVersions \cup {PROTOCOL_VERSION} :
               /\ 4 < Len(ser.buf)
               /\ v # ser.buf[5]
               /\ ser' = [ser EXCEPT !.damage = @ \cup {"version"},
                                     !.buf = WithByte(@, 4, v)]
    /\ UNCHANGED <<quant, vote, det, enc, video, dec, codec, rs, cfg>>

\* FrameHeader::deserialize(&buf)
Deserialize ==
    /\ ser.pc = "serialized"
    /\ ser' = [ser EXCEPT !.pc = "parsed",
                          !.result = deserialize(Bytes(ser.buf))]
    /\ UNCHANGED <<quant, vote, det, enc, video, dec, codec, rs, cfg>>

SerNext == Serialize \/ DamageBuffer \/ Deserialize

SpecSer == Init /\ [][SerNext]_vars

\* The buffer parsed has 90 bytes or more, begins with "VSTR", and its
\* version byte is 1.
WellFormed(buf) ==
    /\ Len(buf) >= 90
    /\ SubSeq(buf, 1, 4) = <<86, 83, 84, 82>>
    /\ buf[5] = 1

\* C20: the parse of the serialized header of version 1 is the header,
\* field for field; the parse succeeds exactly on the buffers of 90 bytes
\* or more that begin with "VSTR" and have version byte 1; it fails with a
\* Header error otherwise: of the short buffer first, then of the magic,
\* then of the version.
C20_HeaderSerialization ==
    ser.pc = "parsed" =>
        /\ (ser.damage = {} /\ ser.header.version = 1) =>
             ser.result = Ok(ser.header)
        /\ ser.result.ok <=> WellFormed(ser.buf)
        /\ ~ser.result.ok =>
             ser.result =
                 IF Len(ser.buf) < 90 THEN HeaderError("buffer too short")
                 ELSE IF SubSeq(ser.buf, 1, 4) # <<86, 83, 84, 82>>
                 THEN HeaderError("invalid magic")
                 ELSE HeaderError("unsupported version")

\* C20 witness: a header of version 1 with the numbers 66051 to 66055 came
\* back from its 90 bytes.
C20_Witness ==
    /\ ser.pc = "parsed"
    /\ ser.damage = {}
    /\ ser.header.version = 1
    /\ ser.header.frame_number = 66051
    /\ ser.header.total_frames = 66052
    /\ Len(ser.buf) = 90
    /\ ser.result = Ok(ser.header)

(***************************************************************************)
(* The quantizer against its reference.                                    *)
(***************************************************************************)
\* round(v * 255 / (L - 1)), halves up: the quotient is never negative.
RoundedPixel(value, levels) ==
    (2 * value * 255 + (levels - 1)) \div (2 * (levels - 1))

\* C21: for every L in {2,4,8,16} and every level v in [0, L-1], quantize
\* returns the 8-bit value round(v * 255 / (L - 1)).
C21_QuantizeIsRounding ==
    quant.pc # "idle" =>
        /\ quant.pixel \in 0..255
        /\ quant.pixel = RoundedPixel(quant.value, quant.levels)

(***************************************************************************)
(* decode of a video in which the header rows of one frame are unreadable. *)
(***************************************************************************)
\* What the header rows of the frame carry in place of the three copies.
BlankHeader == Fill(HEADER_SIZE * 3, 0)

\* The RS data of a frame as delivered: as painted, or with every byte of
\* the first block changed.
DeliveredData(rs_data, change) ==
    IF change = "block"
    THEN [k \in 1..Len(rs_data) |->
             IF k <= 255 THEN (rs_data[k] + 1) % 256 ELSE rs_data[k]] \o <<>>
    ELSE rs_data

\* The files, passwords and configurations of the runs: a small file with
\* no room for correction and with the default ecc_len.
FallbackScenarios ==
    {[file |-> <<1, 2, 3>>, password |-> pw, config |-> c] :
        pw \in EncodePasswords, c \in {<<8, 8, 1>>, <<4, 4, 32>>}}

EncodeStartFallback ==
    EncodeWith(FallbackScenarios, {[nonce |-> Fill(12, 9), salt |-> Fill(16, 5)]})

\* The demuxer delivers one frame damaged: its header rows blank, or the
\* first block of its data area changed beyond correction, or both.
DeliverDamaged ==
    /\ FirstRunOver
    /\ \E f \in 1..Len(enc.frames) : \E header \in {"painted", "blank"} :
       \E change \in {"none", "block"} :
         /\ header = "blank" \/ change = "block"
         /\ video' = [channel |-> IF header = "blank" THEN "headerless"
                                  ELSE "damaged",
                      frames |-> [enc.frames EXCEPT
                                    ![f] = [@ EXCEPT
                                              !.header_data =
                                                  IF header = "blank"
                                                  THEN BlankHeader ELSE @,
                                              !.rs_data = DeliveredData(@, change)]]]
    /\ dec' = DecAfter
    /\ UNCHANGED <<quant, vote, det, enc, codec, rs, cfg, ser>>

FallbackNext ==
    \/ EncodeStartFallback
    \/ EncodeStartLong
    \/ EncodeFrame
    \/ EncodeMux
    \/ Deliver
    \/ DeliverDamaged
    \/ DecodeStart
    \/ DecodeFrame
    \/ DecodeFinish

SpecFallback == Init /\ [][FallbackNext]_vars

\* The header of the frame that the next pass of the decode loop reads.
LoopHeader ==
    decode_header_triple(decode_header_area(video.frames[dec.i + 1],
                                            dec.config.block_size,
                                            dec.config.levels))

\* The pass of the loop added len bytes to the buffer and went on to the
\* next frame.
Contributes(len) ==
    /\ dec'.pc = "frames"
    /\ dec'.i = dec.i + 1
    /\ Len(dec'.ciphertext) = Len(dec.ciphertext) + len
    /\ SubSeq(dec'.ciphertext, 1, Len(dec.ciphertext)) = dec.ciphertext

\* The pass of the loop ended decode with the Ecc error.
PropagatesEcc ==
    /\ dec'.pc = "done"
    /\ dec'.outcome = Failed("Ecc")
    /\ dec'.ciphertext = dec.ciphertext

\* A pass of the decode loop.
LoopPass ==
    /\ dec.pc = "frames"
    /\ dec' # dec
    /\ loop_continues(dec.i, dec.first_header.total_frames, Len(video.frames))

\* C22 as stated: a pass of the decode loop over a frame whose header does
\* not triple-decode adds max_raw bytes and goes on, or ends with the Ecc
\* error; over a frame whose header decodes, it adds data_length bytes.
C22_FallbackOrDataLength ==
    [][LoopPass =>
         IF LoopHeader.ok
         THEN Contributes(LoopHeader.val.data_length)
         ELSE Contributes(max_raw_per_frame(dec.config)) \/ PropagatesEcc]_vars

\* C22 (amended): a pass of the decode loop over a frame whose header does
\* not triple-decode adds max_raw bytes and goes on, or ends with the Ecc
\* error; over a frame whose header decodes, it adds data_length bytes and
\* goes on, or ends with the Ecc error.
C22_HeaderFallback ==
    [][LoopPass =>
         IF LoopHeader.ok
         THEN Contributes(LoopHeader.val.data_length) \/ PropagatesEcc
         ELSE Contributes(max_raw_per_frame(dec.config)) \/ PropagatesEcc]_vars

\* C22 witness: the header rows of the second of two frames were blank, and
\* the loop took max_raw bytes from each frame, more than the payload.
C22_Witness ==
    /\ video.channel = "headerless"
    /\ dec.pc = "frames"
    /\ dec.i = 2
    /\ ~decode_header_triple(decode_header_area(video.frames[2],
                                                dec.config.block_size,
                                                dec.config.levels)).ok
    /\ Len(dec.ciphertext) = 2 * max_raw_per_frame(dec.config)
    /\ Len(dec.ciphertext) > Len(enc.payload)

(***************************************************************************)
(* The room of the data area: the encoder paints the RS blocks of a slice  *)
(* of the payload, and the data area is read back.                         *)
(***************************************************************************)
\* The values of ecc_len of the configurations, and the longest slice
\* that is painted whole.
CapacityEccLens == {1, 32, 254}

MaxFullSlice == 200

\* The lengths of the slices painted with config: one byte, a chunk and a
\* byte, and max_raw where that is short enough.
SliceLens(config) ==
    {1, rs_data_len(config) + 1}
        \cup (IF max_raw_per_frame(config) <= MaxFullSlice
              THEN {max_raw_per_frame(config)} ELSE {})

\* encode, one pass of the loop: the only frame of a payload of len bytes,
\* no password.
PaintSlice ==
    /\ codec.pc = "idle"
    /\ \E c \in 0..(NumCandidates - 1) : \E ecc_len \in CapacityEccLens :
         /\ FrameConfig_new(Candidate(c).block_size, Candidate(c).levels,
                            ecc_len) = "ok"
         /\ \E len \in SliceLens(FrameConfig(Candidate(c).block_size,
                                             Candidate(c).levels, ecc_len)) :
              LET config == FrameConfig(Candidate(c).block_size,
                                        Candidate(c).levels, ecc_len)
                  img == encode_frame(0, 1, config, len, RsData(len),
                                      Fill(12, 0), Fill(16, 0))
              IN  codec' = [codec EXCEPT
                              !.pc = "painted",
                              !.config = config,
                              !.header_data = img.header_data,
                              !.rs_data = img.rs_data,
                              !.img = img]
    /\ UNCHANGED <<quant, vote, det, enc, video, dec, rs, cfg, ser>>

CapacityNext == PaintSlice \/ ReadHeaderArea \/ ReadDataArea

SpecCapacity == Init /\ [][CapacityNext]_vars

\* The RS blocks of a slice of len bytes fit in the whole blocks of the
\* data area, and these in the data area.
FitsDataArea(len, config) ==
    /\ CeilDiv(len, rs_data_len(config)) * 255
         <= (data_area_bytes(config) \div 255) * 255
    /\ (data_area_bytes(config) \div 255) * 255 <= data_area_bytes(config)

\* C23: max_raw is above zero; the RS blocks of the slice painted, and of a
\* slice of max_raw bytes, fit in the data area; every RS byte is in the
\* data area read back, which holds the blocks rs_decode needs for the
\* data_length of the frame.
C23_CapacityBound ==
    codec.pc = "read" =>
        /\ max_raw_per_frame(codec.config) > 0
        /\ PaintedHeader(codec.img).val.data_length
             <= max_raw_per_frame(codec.config)
        /\ Len(codec.rs_data) =
             CeilDiv(PaintedHeader(codec.img).val.data_length,
                     rs_data_len(codec.config)) * 255
        /\ FitsDataArea(PaintedHeader(codec.img).val.data_length, codec.config)
        /\ FitsDataArea(max_raw_per_frame(codec.config), codec.config)
        /\ Len(codec.data_area.bytes) >= Len(codec.rs_data)
        /\ \A k \in 1..Len(codec.rs_data) :
             codec.data_area.bytes[k] = codec.rs_data[k]
        /\ codec.data_area.len >= Len(codec.rs_data)

\* C23 witness: a slice of max_raw = 93 bytes, 93 blocks of 255 bytes, was
\* painted into the 23940 bytes of the data area and read back.
C23_Witness ==
    /\ codec.pc = "read"
    /\ codec.config.block_size = 16
    /\ codec.config.levels = 4
    /\ codec.config.ecc_len = 254
    /\ PaintedHeader(codec.img).val.data_length = 93
    /\ max_raw_per_frame(codec.config) = 93
    /\ Len(codec.rs_data) = 93 * 255
    /\ codec.data_area.len = 23940
    /\ SubSeq(codec.data_area.bytes, 1, 93 * 255) = codec.rs_data

====
